---- MODULE Spec2Model ----
(***************************************************************************)
(* Duplicate-detection engine of find-image-duplicates.                    *)
(*                                                                         *)
(*   lib/duplicateFinder.ts : findExactDuplicates, findSimilarDuplicates,  *)
(*                            ProgressTracker                              *)
(*   lib/fileSystem.ts      : discoverFiles, collectFileEntries,           *)
(*                            getFileFromEntry                             *)
(*   lib/imageHash.ts       : hammingDistance                              *)
(*   app/page.tsx           : HomePage.handleDirectorySelected             *)
(*                                                                         *)
(* Every asynchronous function is a state machine whose steps run from one *)
(* await to the next.  Loop indices are 0-based as in the source;          *)
(* sequences are 1-based, so files[i + 1] is the source's files[i].        *)
(***************************************************************************)
EXTENDS Integers, Sequences, FiniteSets, TLC

\* Longest entry list handed to findExactDuplicates.
MaxFiles == 5

\* Longest entry list handed to findSimilarDuplicates.
MaxSimilarFiles == 3

\* const BATCH_SIZE = 5
BATCH_SIZE == 5

\* if (i % 50 === 0) await ... in the pair loop
COMPARE_YIELD_EVERY == 50

VARIABLES
  files,            \* the FileEntry[] argument
  threshold,        \* findSimilarDuplicates' threshold argument
  aborted,          \* signal.aborted
  pc,               \* position of the running call
  outcome,          \* "running", "ok", or the name of the rejection
  i,                \* loop index (0-based)
  k,                \* inner loop index (0-based)
  hashMap,          \* Map<string, ...> in insertion order: <<[hash, files]>>
  duplicateEntries, \* [hash, entries][] of the metadata fast path
  downloadedCount,  \* downloadedCount / processedUnique
  hashedFiles,      \* HashedFile[] being built (entry index and hash)
  parent,           \* union-find array (0-based indices, stored at x + 1)
  groups,           \* DuplicateGroup[] result
  progress,         \* every onProgress call so far, in order
  cachedFile,       \* indices of the entries whose .file is set
  fetchLog,         \* entry.getFile invocations so far, in order
  caught,           \* errors swallowed by a catch block so far, in order
  hashLog,          \* computePerceptualHash invocations so far, in order
  abortedAtCall,    \* signal.aborted when the call was made
  op,               \* the fileSystem.ts operation in progress, or "none"
  source,           \* the DirectorySource argument of discoverFiles
  dirs,             \* let dirs (directories counted so far)
  filesFound,       \* let files / fileCount (image files counted so far)
  nodes,            \* every DirectoryTreeNode created, in creation order
  rootNodes,        \* rootNodes / [rootNode]: node ids of the tree's roots
  cachedEntries,    \* cachedEntries of the yandex discovery
  dprogress,        \* every OnDiscoveryProgress call so far, in order
  stack,            \* the walk() / scanDirectoryHandle() frames, innermost last
  pos,              \* loop index over the file list / listing / cache
  result,           \* the DiscoveryResult counts, once discovery returned
  results,          \* results: FileEntry[] of collectFileEntries
  onFileLog,        \* every onFile call of collectFileEntries, in order
  trackSpeed,       \* ProgressTracker.trackSpeed
  bytesDownloaded,  \* ProgressTracker.bytesDownloaded
  elapsed,          \* performance.now() - startTime, in clock ticks
  estimates,        \* the last getEstimates call: arguments and result
  hashPair,         \* the two digests handed to hammingDistance
  distance,         \* what hammingDistance returned or threw, once called
  appState,         \* HomePage appState
  error,            \* HomePage error (null is "")
  pageResults,      \* HomePage results: the stored DuplicateGroup[]
  selected,         \* YandexFolderPicker selected: Set<string> of paths
  expanded,         \* the paths of the FolderNodes that are loaded (expanded)
  scanPaths         \* the argument of the onScan call, once made

grouperVars == <<files, threshold, aborted, pc, outcome, i, k, hashMap,
                 duplicateEntries, downloadedCount, hashedFiles, parent,
                 groups, progress, cachedFile, fetchLog, caught, hashLog>>

discoveryVars == <<op, source, dirs, filesFound, nodes, rootNodes,
                   cachedEntries, dprogress, stack, pos, result, results,
                   onFileLog>>

trackerVars == <<trackSpeed, bytesDownloaded, elapsed, estimates>>

hammingVars == <<hashPair, distance>>

pageVars == <<appState, error, pageResults>>

pickerVars == <<selected, expanded, scanPaths>>

\* The state outside the file-system and grouper calls.
componentVars == <<trackerVars, hammingVars, pageVars, pickerVars>>

vars == <<grouperVars, abortedAtCall, discoveryVars, componentVars>>

\* No tracker has been constructed, hammingDistance has not been called and
\* the page shows the source picker.
ComponentsIdle ==
  /\ trackSpeed = FALSE
  /\ bytesDownloaded = 0
  /\ elapsed = 0
  /\ estimates = <<>>
  /\ hashPair = <<>>
  /\ distance = <<>>
  /\ appState = "idle"
  /\ error = ""
  /\ pageResults = <<>>
  /\ selected = {}
  /\ expanded = {}
  /\ scanPaths = <<>>

----------------------------------------------------------------------------
(* Entries and the external hash primitives                                *)

\* Byte contents of the files of a scan.  "bad" cannot be decoded as an
\* image; "short" decodes to a digest of another width.
Contents == {"c1", "c2", "c3", "bad", "short"}

\* crypto.subtle.digest('SHA-256', bytes) as a hex string.
computeCryptoHash(c) ==
  CASE c = "c1" -> "sha-1" [] c = "c2" -> "sha-2" [] c = "c3" -> "sha-3"
    [] c = "bad" -> "sha-4" [] c = "short" -> "sha-5"

\* The md5 the remote API reports for a file with these bytes.
Md5Of(c) ==
  CASE c = "c1" -> "md5-1" [] c = "c2" -> "md5-2" [] c = "c3" -> "md5-3"
    [] c = "bad" -> "md5-4" [] c = "short" -> "md5-5"

\* FileEntry: path, file? (local), md5?, sha256?; an absent string is "".
\* meta is the metadata the listing returned for the file.
MetaKinds == {"none", "md5", "sha256", "both"}

FileEntry(p, c, isLocal, meta) ==
  [path |-> p, content |-> c, local |-> isLocal,
   md5 |-> IF meta \in {"md5", "both"} THEN Md5Of(c) ELSE "",
   sha256 |-> IF meta \in {"sha256", "both"} THEN computeCryptoHash(c) ELSE ""]

\* Lists of n entries of one source: a local list carries files and no
\* metadata, a remote list carries getFile and whatever metadata each
\* resource has.  The path of an entry is its 1-based position.
LocalLists(n, cs) ==
  { [p \in 1..n |-> FileEntry(p, f[p], TRUE, "none")] : f \in [1..n -> cs] }

RemoteLists(n, cs, ms) ==
  { [p \in 1..n |-> FileEntry(p, f[p], FALSE, m[p])] :
      f \in [1..n -> cs], m \in ms }

\* Metadata of the n resources of a listing: the same kind on every
\* resource, or a mix (md5 everywhere and sha256 on all but the last; md5
\* and sha256 alternating; md5 on all but the first).
MetaProfiles(n) ==
  { [p \in 1..n |-> m] : m \in MetaKinds }
  \cup { [p \in 1..n |-> IF p = n THEN "md5" ELSE "both"],
         [p \in 1..n |-> IF p % 2 = 1 THEN "md5" ELSE "sha256"],
         [p \in 1..n |-> IF p = 1 THEN "none" ELSE "md5"] }

----------------------------------------------------------------------------
(* Helpers shared by the groupers                                          *)

\* No fileSystem.ts operation is running.
DiscoveryIdle ==
  /\ op = "none"
  /\ source = [type |-> "none"]
  /\ dirs = 0
  /\ filesFound = 0
  /\ nodes = <<>>
  /\ rootNodes = <<>>
  /\ cachedEntries = <<>>
  /\ dprogress = <<>>
  /\ stack = <<>>
  /\ pos = 0
  /\ result = [type |-> "none"]
  /\ results = <<>>
  /\ onFileLog = <<>>

AbortError == "AbortError"
SourceAccessFailure == "SourceAccessFailure"

\* An onProgress call that reports the entries left, not the entries done.
ProgressEventCountsDown(phase, processed, total, current) ==
  [phase |-> phase, processedFiles |-> total - processed,
   totalFiles |-> total, currentFile |-> current]

\* One onProgress call.  currentFile is the entry's path, 0 for ''.
ProgressEvent(phase, processed, total, current) ==
  [phase |-> phase, processedFiles |-> processed, totalFiles |-> total,
   currentFile |-> current]

\* Map.get / push / set on an insertion-ordered Map<hash, T[]>.
MapHas(m, h) == \E x \in 1..Len(m) : m[x].hash = h

\* A Map that starts a new bucket for every value.
MapPushAlwaysNew(m, h, v) == Append(m, [hash |-> h, files |-> <<v>>])

MapPush(m, h, v) ==
  IF MapHas(m, h)
    THEN [x \in 1..Len(m) |->
            IF m[x].hash = h
              THEN [m[x] EXCEPT !.files = Append(@, v)]
              ELSE m[x]]
    ELSE Append(m, [hash |-> h, files |-> <<v>>])

\* A filter that keeps singleton buckets.
KeepAllBuckets(m) == m

\* The buckets with more than one member, in Map order
\* (if (entries.length > 1) push).
RECURSIVE DuplicatesOnly(_)
DuplicatesOnly(m) ==
  IF m = <<>> THEN <<>>
  ELSE IF Len(Head(m).files) > 1
    THEN <<Head(m)>> \o DuplicatesOnly(Tail(m))
    ELSE DuplicatesOnly(Tail(m))

\* A key choice that prefers md5 over sha256.
getMetadataHashKeyMd5First(fs) ==
  IF Len(fs) = 0 THEN ""
  ELSE IF \A x \in 1..Len(fs) : fs[x].md5 # "" THEN "md5"
  ELSE IF \A x \in 1..Len(fs) : fs[x].sha256 # "" THEN "sha256"
  ELSE ""

\* getMetadataHashKey(files): 'sha256' | 'md5' | null ("")
getMetadataHashKey(fs) ==
  IF Len(fs) = 0 THEN ""
  ELSE IF \A x \in 1..Len(fs) : fs[x].sha256 # "" THEN "sha256"
  ELSE IF \A x \in 1..Len(fs) : fs[x].md5 # "" THEN "md5"
  ELSE ""

\* entry[hashKey]
MetadataHash(e, hashKey) == IF hashKey = "sha256" THEN e.sha256 ELSE e.md5

\* A getFileFromEntry that goes to entry.getFile whether or not entry.file
\* is set.
NeedsFetchIgnoringCache(x) == x \in 1..Len(files)

\* getFileFromEntry needs entry.getFile unless entry.file is set.
NeedsFetch(x) == x \notin cachedFile

\* A HashedFile: the entry (its position in files) and its hash.
HashedFile(x, h) == [entry |-> x, hash |-> h]

\* The positions of the entries whose .file is set before the call.
LocalEntries(fs) == {x \in 1..Len(fs) : fs[x].local}

\* The positions at which the call is suspended at an await.
AwaitPoints ==
  {"md_fetch", "md_yield", "fb_fetch", "fb_yield",
   "sm_fetch", "sm_dupe", "sm_yield", "sf_fetch", "sf_yield", "cmp_yield",
   "hd_next", "yx_fetch", "sc_next", "sc_getfile"}

\* Where a call suspended in await new Promise(r => setTimeout(r, 0))
\* resumes.
ResumeAt(at) ==
  CASE at = "md_yield" -> "md_download"
    [] at = "fb_yield" -> "fb_loop"
    [] at = "sm_yield" -> "sm_loop"
    [] at = "sf_yield" -> "sf_loop"
    [] at = "cmp_yield" -> "cmp"

Yield ==
  /\ pc \in {"md_yield", "fb_yield", "sm_yield", "sf_yield", "cmp_yield"}
  /\ pc' = ResumeAt(pc)
  /\ UNCHANGED <<abortedAtCall, discoveryVars, componentVars, hashLog>>
  /\ UNCHANGED <<files, threshold, aborted, outcome, i, k, hashMap,
                 duplicateEntries, downloadedCount, hashedFiles, parent,
                 groups, progress, cachedFile, fetchLog, caught>>

\* The user cancels while the call is suspended at an await.
Abort ==
  /\ pc \in AwaitPoints
  /\ ~aborted
  /\ aborted' = TRUE
  /\ UNCHANGED <<abortedAtCall, discoveryVars, componentVars, hashLog>>
  /\ UNCHANGED <<files, threshold, pc, outcome, i, k, hashMap,
                 duplicateEntries, downloadedCount, hashedFiles, parent,
                 groups, progress, cachedFile, fetchLog, caught>>

----------------------------------------------------------------------------
(* findExactDuplicates                                                     *)

hashKey == getMetadataHashKey(files)

\* const hashKey = getMetadataHashKey(files); if (hashKey) return fast path
ExactEnter ==
  /\ pc = "exact"
  /\ pc' = IF hashKey # "" THEN "md_group" ELSE "fb_loop"
  /\ UNCHANGED <<abortedAtCall, discoveryVars, componentVars, hashLog>>
  /\ UNCHANGED <<files, threshold, aborted, outcome, i, k, hashMap,
                 duplicateEntries, downloadedCount, hashedFiles, parent,
                 groups, progress, cachedFile, fetchLog, caught>>

\* Fast path, phase 1: one iteration of the grouping loop.
MdGroup ==
  /\ pc = "md_group"
  /\ i < Len(files)
  /\ IF aborted
       THEN /\ pc' = "failed"
            /\ outcome' = AbortError
            /\ UNCHANGED <<i, hashMap, progress>>
       ELSE /\ progress' = Append(progress,
                 ProgressEvent("hashing", i + 1, Len(files), files[i + 1].path))
            /\ hashMap' = MapPush(hashMap, MetadataHash(files[i + 1], hashKey), i + 1)
            /\ i' = i + 1
            /\ UNCHANGED <<pc, outcome>>
  /\ UNCHANGED <<abortedAtCall, discoveryVars, componentVars, hashLog>>
  /\ UNCHANGED <<files, threshold, aborted, k, duplicateEntries,
                 downloadedCount, hashedFiles, parent, groups, cachedFile,
                 fetchLog, caught>>

\* Fast path, phase 2: keep the buckets with 2+ entries.
MdSelect ==
  /\ pc = "md_group"
  /\ i = Len(files)
  /\ duplicateEntries' = DuplicatesOnly(hashMap)
  /\ i' = 0
  /\ k' = 0
  /\ downloadedCount' = 0
  /\ pc' = "md_download"
  /\ UNCHANGED <<abortedAtCall, discoveryVars, componentVars, hashLog>>
  /\ UNCHANGED <<files, threshold, aborted, outcome, hashMap, hashedFiles,
                 parent, groups, progress, cachedFile, fetchLog, caught>>

\* duplicateEntries.reduce((sum, [, entries]) => sum + entries.length, 0)
RECURSIVE TotalEntries(_)
TotalEntries(m) ==
  IF m = <<>> THEN 0 ELSE Len(Head(m).files) + TotalEntries(Tail(m))

\* A download loop that reports under the tag of the collection phase.
MdDownloadTaggedScanning ==
  /\ pc = "md_download"
  /\ i < Len(duplicateEntries)
  /\ LET e == duplicateEntries[i + 1].files[k + 1] IN
     IF aborted
       THEN /\ pc' = "failed"
            /\ outcome' = AbortError
            /\ UNCHANGED <<progress, fetchLog>>
       ELSE /\ progress' = Append(progress,
                 ProgressEvent("scanning", downloadedCount,
                               TotalEntries(duplicateEntries), files[e].path))
            /\ fetchLog' = IF NeedsFetch(e) THEN Append(fetchLog, e) ELSE fetchLog
            /\ pc' = "md_fetch"
            /\ UNCHANGED outcome
  /\ UNCHANGED <<abortedAtCall, discoveryVars, componentVars, hashLog>>
  /\ UNCHANGED <<files, threshold, aborted, i, k, hashMap, duplicateEntries,
                 downloadedCount, hashedFiles, parent, groups, cachedFile,
                 caught>>

\* Fast path, phase 3: top of the download loop for entry k of group i.
MdDownload ==
  /\ pc = "md_download"
  /\ i < Len(duplicateEntries)
  /\ LET e == duplicateEntries[i + 1].files[k + 1] IN
     IF aborted
       THEN /\ pc' = "failed"
            /\ outcome' = AbortError
            /\ UNCHANGED <<progress, fetchLog>>
       ELSE /\ progress' = Append(progress,
                 ProgressEvent("comparing", downloadedCount,
                               TotalEntries(duplicateEntries), files[e].path))
            /\ fetchLog' = IF NeedsFetch(e) THEN Append(fetchLog, e) ELSE fetchLog
            /\ pc' = "md_fetch"
            /\ UNCHANGED outcome
  /\ UNCHANGED <<abortedAtCall, discoveryVars, componentVars, hashLog>>
  /\ UNCHANGED <<files, threshold, aborted, i, k, hashMap, duplicateEntries,
                 downloadedCount, hashedFiles, parent, groups, cachedFile,
                 caught>>

\* await getFileFromEntry(entry) resolves; the entry joins its group.
MdFetchOk ==
  /\ pc = "md_fetch"
  /\ LET g == duplicateEntries[i + 1]
         e == g.files[k + 1]
         hf == Append(hashedFiles, HashedFile(e, g.hash))
         last == k + 1 = Len(g.files)
     IN
     /\ cachedFile' = cachedFile \cup {e}
     /\ downloadedCount' = downloadedCount + 1
     /\ hashedFiles' = IF last THEN <<>> ELSE hf
     /\ groups' = IF last THEN Append(groups, [hash |-> g.hash, files |-> hf])
                          ELSE groups
     /\ i' = IF last THEN i + 1 ELSE i
     /\ k' = IF last THEN 0 ELSE k + 1
     /\ pc' = IF (downloadedCount + 1) % BATCH_SIZE = 0
                THEN "md_yield" ELSE "md_download"
  /\ UNCHANGED <<abortedAtCall, discoveryVars, componentVars, hashLog>>
  /\ UNCHANGED <<files, threshold, aborted, outcome, hashMap,
                 duplicateEntries, parent, progress, fetchLog, caught>>

\* entry.getFile() rejects: downloadFile's fetch fails, or its signal is
\* aborted while the request is in flight.
FetchErrors == IF aborted THEN {SourceAccessFailure, AbortError}
                          ELSE {SourceAccessFailure}

MdFetchFail ==
  /\ pc = "md_fetch"
  /\ NeedsFetch(duplicateEntries[i + 1].files[k + 1])
  /\ \E err \in FetchErrors : outcome' = err
  /\ pc' = "failed"
  /\ UNCHANGED <<abortedAtCall, discoveryVars, componentVars, hashLog>>
  /\ UNCHANGED <<files, threshold, aborted, i, k, hashMap, duplicateEntries,
                 downloadedCount, hashedFiles, parent, groups, progress,
                 cachedFile, fetchLog, caught>>

\* return groups
MdReturn ==
  /\ pc = "md_download"
  /\ i = Len(duplicateEntries)
  /\ pc' = "done"
  /\ outcome' = "ok"
  /\ UNCHANGED <<abortedAtCall, discoveryVars, componentVars, hashLog>>
  /\ UNCHANGED <<files, threshold, aborted, i, k, hashMap, duplicateEntries,
                 downloadedCount, hashedFiles, parent, groups, progress,
                 cachedFile, fetchLog, caught>>

\* Fallback: top of the hashing loop for entry i, or the end of the loop.
FbLoop ==
  /\ pc = "fb_loop"
  /\ i < Len(files)
  /\ IF aborted
       THEN /\ pc' = "failed"
            /\ outcome' = AbortError
            /\ UNCHANGED <<progress, fetchLog>>
       ELSE /\ progress' = Append(progress,
                 ProgressEvent("hashing", i, Len(files), files[i + 1].path))
            /\ fetchLog' = IF NeedsFetch(i + 1) THEN Append(fetchLog, i + 1)
                                               ELSE fetchLog
            /\ pc' = "fb_fetch"
            /\ UNCHANGED outcome
  /\ UNCHANGED <<abortedAtCall, discoveryVars, componentVars, hashLog>>
  /\ UNCHANGED <<files, threshold, aborted, i, k, hashMap, duplicateEntries,
                 downloadedCount, hashedFiles, parent, groups, cachedFile,
                 caught>>

\* getFileFromEntry and computeCryptoHash resolve; the file joins its bucket.
FbFetchOk ==
  /\ pc = "fb_fetch"
  /\ LET hash == computeCryptoHash(files[i + 1].content) IN
     hashMap' = MapPush(hashMap, hash, HashedFile(i + 1, hash))
  /\ cachedFile' = cachedFile \cup {i + 1}
  /\ pc' = IF i % BATCH_SIZE = 0 THEN "fb_yield" ELSE "fb_loop"
  /\ i' = i + 1
  /\ UNCHANGED <<abortedAtCall, discoveryVars, componentVars, hashLog>>
  /\ UNCHANGED <<files, threshold, aborted, outcome, k, duplicateEntries,
                 downloadedCount, hashedFiles, parent, groups, progress,
                 fetchLog, caught>>

FbFetchFail ==
  /\ pc = "fb_fetch"
  /\ NeedsFetch(i + 1)
  /\ \E err \in FetchErrors : outcome' = err
  /\ pc' = "failed"
  /\ UNCHANGED <<abortedAtCall, discoveryVars, componentVars, hashLog>>
  /\ UNCHANGED <<files, threshold, aborted, i, k, hashMap, duplicateEntries,
                 downloadedCount, hashedFiles, parent, groups, progress,
                 cachedFile, fetchLog, caught>>

\* A fallback that returns without its closing onProgress call.
FbReturnUnreported ==
  /\ pc = "fb_loop"
  /\ i = Len(files)
  /\ groups' = DuplicatesOnly(hashMap)
  /\ pc' = "done"
  /\ outcome' = "ok"
  /\ UNCHANGED <<abortedAtCall, discoveryVars, componentVars, hashLog>>
  /\ UNCHANGED <<files, threshold, aborted, i, k, hashMap, duplicateEntries,
                 downloadedCount, hashedFiles, parent, cachedFile, fetchLog,
                 caught, progress>>

\* After the loop: the final onProgress, then the buckets with 2+ files.
FbReturn ==
  /\ pc = "fb_loop"
  /\ i = Len(files)
  /\ progress' = Append(progress,
       ProgressEvent("comparing", Len(files), Len(files), 0))
  /\ groups' = DuplicatesOnly(hashMap)
  /\ pc' = "done"
  /\ outcome' = "ok"
  /\ UNCHANGED <<abortedAtCall, discoveryVars, componentVars, hashLog>>
  /\ UNCHANGED <<files, threshold, aborted, i, k, hashMap, duplicateEntries,
                 downloadedCount, hashedFiles, parent, cachedFile, fetchLog,
                 caught>>

\* The contents that occur in the lists handed to findExactDuplicates.
ExactContents == {"c1", "c2", "c3"}

ExactInputs ==
  UNION { LocalLists(n, ExactContents) \cup RemoteLists(n, ExactContents, MetaProfiles(n)) :
          n \in 0..MaxFiles }

InitExact ==
  /\ files \in ExactInputs
  /\ threshold = 0
  /\ aborted \in BOOLEAN
  /\ abortedAtCall = aborted
  /\ pc = "exact"
  /\ outcome = "running"
  /\ i = 0
  /\ k = 0
  /\ hashMap = <<>>
  /\ duplicateEntries = <<>>
  /\ downloadedCount = 0
  /\ hashedFiles = <<>>
  /\ parent = <<>>
  /\ groups = <<>>
  /\ progress = <<>>
  /\ cachedFile = LocalEntries(files)
  /\ fetchLog = <<>>
  /\ caught = <<>>
  /\ hashLog = <<>>
  /\ DiscoveryIdle
  /\ ComponentsIdle

NextExact ==
  \/ ExactEnter
  \/ MdGroup \/ MdSelect \/ MdDownload \/ MdFetchOk \/ MdFetchFail
  \/ MdReturn
  \/ FbLoop \/ FbFetchOk \/ FbFetchFail \/ FbReturn
  \/ Yield \/ Abort

SpecExact == InitExact /\ [][NextExact]_vars

----------------------------------------------------------------------------
(* imageHash.ts: computePerceptualHash and hammingDistance                 *)

\* Whether createImageBitmap can decode a file with these bytes.
Decodable(c) == c # "bad"

\* bmvbhash of the decoded image: a hex digest, one character per element.
computePerceptualHash(c) ==
  CASE c = "c1" -> <<"0", "0">>
    [] c = "c2" -> <<"0", "3">>
    [] c = "c3" -> <<"1", "b">>
    [] c = "short" -> <<"0">>

\* parseInt(ch, 16)
HexDigits == <<"0", "1", "2", "3", "4", "5", "6", "7",
               "8", "9", "a", "b", "c", "d", "e", "f">>

parseInt16(ch) == (CHOOSE d \in 1..16 : HexDigits[d] = ch) - 1

\* ((xor >> b) & 1) for xor = x ^ y
XorBit(x, y, b) ==
  IF ((x \div (2 ^ b)) % 2) # ((y \div (2 ^ b)) % 2) THEN 1 ELSE 0

\* popcount of the three low bits of the xor only
DigitDistanceLowBits(x, y) ==
  XorBit(x, y, 0) + XorBit(x, y, 1) + XorBit(x, y, 2)

\* popcount of the 4-bit xor of two hex digits
DigitDistance(x, y) ==
  XorBit(x, y, 0) + XorBit(x, y, 1) + XorBit(x, y, 2) + XorBit(x, y, 3)

RECURSIVE SumDistance(_, _, _)
SumDistance(hash1, hash2, n) ==
  IF n = 0 THEN 0
  ELSE SumDistance(hash1, hash2, n - 1)
       + DigitDistance(parseInt16(hash1[n]), parseInt16(hash2[n]))

\* hammingDistance throws when the lengths differ.
HammingThrows(hash1, hash2) == Len(hash1) # Len(hash2)

hammingDistance(hash1, hash2) == SumDistance(hash1, hash2, Len(hash1))

----------------------------------------------------------------------------
(* findSimilarDuplicates                                                   *)

HashLengthMismatch == "HashLengthMismatch"
DecodeFailure == "DecodeFailure"

\* const hasMetadata = files.length > 0 && files.every(f => f.md5)
hasMetadata == Len(files) > 0 /\ \A x \in 1..Len(files) : files[x].md5 # ""

\* The md5Groups Map built from files, in insertion order.
RECURSIVE Md5Groups(_, _)
Md5Groups(fs, n) ==
  IF n = 0 THEN <<>>
  ELSE MapPush(Md5Groups(fs, n - 1), fs[n].md5, n)

\* find(x) with path halving: the root and the array it leaves.
RECURSIVE find(_, _)
find(p, x) ==
  IF p[x + 1] = x THEN [root |-> x, parent |-> p]
  ELSE LET p2 == [p EXCEPT ![x + 1] = p[p[x + 1] + 1]]
       IN find(p2, p2[x + 1])

\* A union that links the elements instead of their roots.
unionNoFind(p, a, b) == [p EXCEPT ![a + 1] = b]

\* union(a, b): the array after the call.
union(p, a, b) ==
  LET fa == find(p, a)
      fb == find(fa.parent, b)
  IN IF fa.root # fb.root
       THEN [fb.parent EXCEPT ![fa.root + 1] = fb.root]
       ELSE fb.parent

\* A test that joins only the pairs exactly at the threshold.
SimilarOnlyAtThreshold(dist, t) == dist = t

\* if (dist <= threshold)
Similar(dist, t) == dist <= t

\* The groupMap built by the collecting loop over indices 0..n-1: the
\* buckets by root in insertion order and the array find leaves.
RECURSIVE GroupMap(_, _, _)
GroupMap(p, hf, n) ==
  IF n = 0 THEN [map |-> <<>>, parent |-> p]
  ELSE LET before == GroupMap(p, hf, n - 1)
           f == find(before.parent, n - 1)
       IN [map |-> MapPush(before.map, f.root, hf[n]), parent |-> f.parent]

\* Groups that carry the hash of their last member.
RECURSIVE SimilarGroupsLastHash(_)
SimilarGroupsLastHash(m) ==
  IF m = <<>> THEN <<>>
  ELSE LET rest == SimilarGroupsLastHash(Tail(m))
           g == Head(m).files
       IN IF Len(g) > 1
            THEN <<[hash |-> g[Len(g)].hash, files |-> g]>> \o rest
            ELSE rest

\* groups.push({ hash: groupFiles[0].hash, files: groupFiles })
RECURSIVE SimilarGroups(_)
SimilarGroups(m) ==
  IF m = <<>> THEN <<>>
  ELSE LET rest == SimilarGroups(Tail(m))
           g == Head(m).files
       IN IF Len(g) > 1
            THEN <<[hash |-> g[1].hash, files |-> g]>> \o rest
            ELSE rest

\* Entered: the md5 Map is built before the first await.
SimilarEnter ==
  /\ pc = "similar"
  /\ IF hasMetadata
       THEN /\ hashMap' = Md5Groups(files, Len(files))
            /\ pc' = "sm_loop"
       ELSE /\ pc' = "sf_loop"
            /\ UNCHANGED hashMap
  /\ UNCHANGED <<abortedAtCall, discoveryVars, componentVars, hashLog>>
  /\ UNCHANGED <<files, threshold, aborted, outcome, i, k,
                 duplicateEntries, downloadedCount, hashedFiles, parent,
                 groups, progress, cachedFile, fetchLog, caught>>

\* md5 path: top of the loop over md5Groups for group i.
\* const representative = entries[0]
RepresentativeIndex == 0

SmLoop ==
  /\ pc = "sm_loop"
  /\ i < Len(hashMap)
  /\ LET representative == hashMap[i + 1].files[RepresentativeIndex + 1] IN
     IF aborted
       THEN /\ pc' = "failed"
            /\ outcome' = AbortError
            /\ UNCHANGED <<k, progress, fetchLog>>
       ELSE /\ progress' = Append(progress,
                 ProgressEvent("hashing", downloadedCount, Len(hashMap),
                               files[representative].path))
            /\ fetchLog' = IF NeedsFetch(representative)
                             THEN Append(fetchLog, representative)
                             ELSE fetchLog
            /\ k' = 0
            /\ pc' = "sm_fetch"
            /\ UNCHANGED outcome
  /\ UNCHANGED <<abortedAtCall, discoveryVars, componentVars, hashLog>>
  /\ UNCHANGED <<files, threshold, aborted, i, hashMap, duplicateEntries,
                 downloadedCount, hashedFiles, parent, groups, cachedFile,
                 caught>>

\* The position after an iteration of the md5 loop ends (also from catch).
SmAfterIteration ==
  IF (downloadedCount + 1) % BATCH_SIZE = 0 THEN "sm_yield" ELSE "sm_loop"

\* A loop over the rest of the group that starts at the representative.
FirstDupeAtRepresentative == RepresentativeIndex

\* for (let i = 1; i < entries.length; i++): the first index of the loop
\* over the rest of an md5 group.
FirstDupeIndex == 1

\* md5 path: after the representative or entries[k - 1] is pushed, the loop
\* over the rest of the group fetches entries[next] or the iteration ends.
SmContinue(g, next, cached) ==
  IF next < Len(g)
    THEN /\ k' = next
         /\ fetchLog' = IF g[next + 1] \notin cached
                          THEN Append(fetchLog, g[next + 1]) ELSE fetchLog
         /\ pc' = "sm_dupe"
         /\ UNCHANGED <<downloadedCount, i>>
    ELSE /\ downloadedCount' = downloadedCount + 1
         /\ i' = i + 1
         /\ pc' = SmAfterIteration
         /\ UNCHANGED <<k, fetchLog>>

\* md5 path: getFileFromEntry(representative) and computePerceptualHash
\* resolve; the representative is pushed.
SmFetchOk ==
  /\ pc = "sm_fetch"
  /\ LET g == hashMap[i + 1].files
         hash == computePerceptualHash(files[g[1]].content)
     IN
     /\ Decodable(files[g[1]].content)
     /\ cachedFile' = cachedFile \cup {g[1]}
     /\ hashedFiles' = Append(hashedFiles, HashedFile(g[1], hash))
     /\ hashLog' = Append(hashLog, g[1])
     /\ SmContinue(g, FirstDupeIndex, cachedFile')
  /\ UNCHANGED <<abortedAtCall, discoveryVars, componentVars>>
  /\ UNCHANGED <<files, threshold, aborted, outcome, hashMap,
                 duplicateEntries, parent, groups, progress, caught>>

\* A loop over the rest of the group that hashes every entry again.
SmDupeOkRehashes ==
  /\ pc = "sm_dupe"
  /\ LET g == hashMap[i + 1].files
         hash == computePerceptualHash(files[g[1]].content)
     IN
     /\ cachedFile' = cachedFile \cup {g[k + 1]}
     /\ hashedFiles' = Append(hashedFiles, HashedFile(g[k + 1], hash))
     /\ SmContinue(g, k + 1, cachedFile')
  /\ hashLog' = Append(hashLog, hashMap[i + 1].files[k + 1])
  /\ UNCHANGED <<abortedAtCall, discoveryVars, componentVars>>
  /\ UNCHANGED <<files, threshold, aborted, outcome, hashMap,
                 duplicateEntries, parent, groups, progress, caught>>

\* md5 path: getFileFromEntry(entries[k]) resolves; the entry is pushed
\* with the representative's hash.
SmDupeOk ==
  /\ pc = "sm_dupe"
  /\ LET g == hashMap[i + 1].files
         hash == computePerceptualHash(files[g[1]].content)
     IN
     /\ cachedFile' = cachedFile \cup {g[k + 1]}
     /\ hashedFiles' = Append(hashedFiles, HashedFile(g[k + 1], hash))
     /\ SmContinue(g, k + 1, cachedFile')
  /\ UNCHANGED <<abortedAtCall, discoveryVars, componentVars, hashLog>>
  /\ UNCHANGED <<files, threshold, aborted, outcome, hashMap,
                 duplicateEntries, parent, groups, progress, caught>>

\* md5 path: computePerceptualHash(file) of the representative rejects;
\* the catch block logs and the loop goes on.
SmDecodeFail ==
  /\ pc = "sm_fetch"
  /\ k = 0
  /\ ~Decodable(files[hashMap[i + 1].files[1]].content)
  /\ cachedFile' = cachedFile \cup {hashMap[i + 1].files[1]}
  /\ caught' = Append(caught, [error |-> DecodeFailure,
                               entry |-> hashMap[i + 1].files[1]])
  /\ downloadedCount' = downloadedCount + 1
  /\ i' = i + 1
  /\ pc' = SmAfterIteration
  /\ hashLog' = Append(hashLog, hashMap[i + 1].files[1])
  /\ UNCHANGED <<abortedAtCall, discoveryVars, componentVars>>
  /\ UNCHANGED <<files, threshold, aborted, outcome, k, hashMap,
                 duplicateEntries, hashedFiles, parent, groups, progress,
                 fetchLog>>

\* md5 path: the pending entry.getFile() rejects inside the try block.
SmFetchFail ==
  /\ pc \in {"sm_fetch", "sm_dupe"}
  /\ NeedsFetch(hashMap[i + 1].files[k + 1])
  /\ \E err \in FetchErrors :
       caught' = Append(caught, [error |-> err,
                                 entry |-> hashMap[i + 1].files[k + 1]])
  /\ downloadedCount' = downloadedCount + 1
  /\ i' = i + 1
  /\ pc' = SmAfterIteration
  /\ UNCHANGED <<abortedAtCall, discoveryVars, componentVars, hashLog>>
  /\ UNCHANGED <<files, threshold, aborted, outcome, k, hashMap,
                 duplicateEntries, hashedFiles, parent, groups, progress,
                 cachedFile, fetchLog>>

\* Fallback: top of the hashing loop for entry i.
SfLoop ==
  /\ pc = "sf_loop"
  /\ i < Len(files)
  /\ IF aborted
       THEN /\ pc' = "failed"
            /\ outcome' = AbortError
            /\ UNCHANGED <<progress, fetchLog>>
       ELSE /\ progress' = Append(progress,
                 ProgressEvent("hashing", i, Len(files), files[i + 1].path))
            /\ fetchLog' = IF NeedsFetch(i + 1) THEN Append(fetchLog, i + 1)
                                               ELSE fetchLog
            /\ pc' = "sf_fetch"
            /\ UNCHANGED outcome
  /\ UNCHANGED <<abortedAtCall, discoveryVars, componentVars, hashLog>>
  /\ UNCHANGED <<files, threshold, aborted, i, k, hashMap, duplicateEntries,
                 downloadedCount, hashedFiles, parent, groups, cachedFile,
                 caught>>

\* The position after an iteration of the fallback loop ends.
SfAfterIteration == IF i % BATCH_SIZE = 0 THEN "sf_yield" ELSE "sf_loop"

\* Fallback: getFileFromEntry and computePerceptualHash resolve.
SfFetchOk ==
  /\ pc = "sf_fetch"
  /\ Decodable(files[i + 1].content)
  /\ cachedFile' = cachedFile \cup {i + 1}
  /\ hashedFiles' = Append(hashedFiles,
       HashedFile(i + 1, computePerceptualHash(files[i + 1].content)))
  /\ pc' = SfAfterIteration
  /\ i' = i + 1
  /\ hashLog' = Append(hashLog, i + 1)
  /\ UNCHANGED <<abortedAtCall, discoveryVars, componentVars>>
  /\ UNCHANGED <<files, threshold, aborted, outcome, k, hashMap,
                 duplicateEntries, downloadedCount, parent, groups, progress,
                 fetchLog, caught>>

\* A fallback loop without the try block: the rejection leaves the call.
SfDecodeFailThrows ==
  /\ pc = "sf_fetch"
  /\ ~Decodable(files[i + 1].content)
  /\ cachedFile' = cachedFile \cup {i + 1}
  /\ pc' = "failed"
  /\ outcome' = DecodeFailure
  /\ hashLog' = Append(hashLog, i + 1)
  /\ UNCHANGED <<abortedAtCall, discoveryVars, componentVars>>
  /\ UNCHANGED <<files, threshold, aborted, i, k, hashMap,
                 duplicateEntries, downloadedCount, hashedFiles, parent,
                 groups, progress, fetchLog, caught>>

\* Fallback: computePerceptualHash(file) rejects; the catch block logs.
SfDecodeFail ==
  /\ pc = "sf_fetch"
  /\ ~Decodable(files[i + 1].content)
  /\ cachedFile' = cachedFile \cup {i + 1}
  /\ caught' = Append(caught, [error |-> DecodeFailure, entry |-> i + 1])
  /\ pc' = SfAfterIteration
  /\ i' = i + 1
  /\ hashLog' = Append(hashLog, i + 1)
  /\ UNCHANGED <<abortedAtCall, discoveryVars, componentVars>>
  /\ UNCHANGED <<files, threshold, aborted, outcome, k, hashMap,
                 duplicateEntries, downloadedCount, hashedFiles, parent,
                 groups, progress, fetchLog>>

\* Fallback: entry.getFile() rejects inside the try block.
SfFetchFail ==
  /\ pc = "sf_fetch"
  /\ NeedsFetch(i + 1)
  /\ \E err \in FetchErrors :
       caught' = Append(caught, [error |-> err, entry |-> i + 1])
  /\ pc' = SfAfterIteration
  /\ i' = i + 1
  /\ UNCHANGED <<abortedAtCall, discoveryVars, componentVars, hashLog>>
  /\ UNCHANGED <<files, threshold, aborted, outcome, k, hashMap,
                 duplicateEntries, downloadedCount, hashedFiles, parent,
                 groups, progress, cachedFile, fetchLog>>

\* parent = Array.from({ length: n }, (_, i) => i)
IdentityParent(n) == [x \in 1..n |-> x - 1]

\* After either hashing loop: the 'comparing' onProgress and the
\* union-find array; the pair loop starts at (0, 1).
StartCompare ==
  /\ \/ pc = "sm_loop" /\ i = Len(hashMap)
     \/ pc = "sf_loop" /\ i = Len(files)
  /\ progress' = Append(progress,
       ProgressEvent("comparing", Len(files), Len(files), 0))
  /\ parent' = IdentityParent(Len(hashedFiles))
  /\ i' = 0
  /\ k' = 1
  /\ pc' = "cmp"
  /\ UNCHANGED <<abortedAtCall, discoveryVars, componentVars, hashLog>>
  /\ UNCHANGED <<files, threshold, aborted, outcome, hashMap,
                 duplicateEntries, downloadedCount, hashedFiles, groups,
                 cachedFile, fetchLog, caught>>

\* A pair loop that takes digests of different length for not similar.
ComparePairSkipsMismatch ==
  /\ pc = "cmp"
  /\ i < Len(hashedFiles)
  /\ k < Len(hashedFiles)
  /\ LET h1 == hashedFiles[i + 1].hash
         h2 == hashedFiles[k + 1].hash
     IN
     IF aborted
       THEN /\ pc' = "failed"
            /\ outcome' = AbortError
            /\ UNCHANGED <<k, parent>>
       ELSE IF HammingThrows(h1, h2)
         THEN /\ k' = k + 1
              /\ UNCHANGED <<pc, outcome, parent>>
         ELSE /\ parent' = IF Similar(hammingDistance(h1, h2), threshold)
                             THEN union(parent, i, k)
                             ELSE parent
              /\ k' = k + 1
              /\ UNCHANGED <<pc, outcome>>
  /\ UNCHANGED <<abortedAtCall, discoveryVars, componentVars, hashLog>>
  /\ UNCHANGED <<files, threshold, aborted, i, hashMap, duplicateEntries,
                 downloadedCount, hashedFiles, groups, progress, cachedFile,
                 fetchLog, caught>>

\* One pass of the inner loop body for the pair (i, j), j held in k.
ComparePair ==
  /\ pc = "cmp"
  /\ i < Len(hashedFiles)
  /\ k < Len(hashedFiles)
  /\ LET h1 == hashedFiles[i + 1].hash
         h2 == hashedFiles[k + 1].hash
     IN
     IF aborted
       THEN /\ pc' = "failed"
            /\ outcome' = AbortError
            /\ UNCHANGED <<k, parent>>
       ELSE IF HammingThrows(h1, h2)
         THEN /\ pc' = "failed"
              /\ outcome' = HashLengthMismatch
              /\ UNCHANGED <<k, parent>>
         ELSE /\ parent' = IF Similar(hammingDistance(h1, h2), threshold)
                             THEN union(parent, i, k)
                             ELSE parent
              /\ k' = k + 1
              /\ UNCHANGED <<pc, outcome>>
  /\ UNCHANGED <<abortedAtCall, discoveryVars, componentVars, hashLog>>
  /\ UNCHANGED <<files, threshold, aborted, i, hashMap, duplicateEntries,
                 downloadedCount, hashedFiles, groups, progress, cachedFile,
                 fetchLog, caught>>

\* The inner loop of row i is over: yield every 50 rows, then the next row.
CompareRowEnd ==
  /\ pc = "cmp"
  /\ i < Len(hashedFiles)
  /\ k >= Len(hashedFiles)
  /\ pc' = IF i % COMPARE_YIELD_EVERY = 0 THEN "cmp_yield" ELSE "cmp"
  /\ i' = i + 1
  /\ k' = i + 2
  /\ UNCHANGED <<abortedAtCall, discoveryVars, componentVars, hashLog>>
  /\ UNCHANGED <<files, threshold, aborted, outcome, hashMap,
                 duplicateEntries, downloadedCount, hashedFiles, parent,
                 groups, progress, cachedFile, fetchLog, caught>>

\* The pair loop is over: partition by root and keep the groups of 2+.
CollectGroups ==
  /\ pc = "cmp"
  /\ i >= Len(hashedFiles)
  /\ LET gm == GroupMap(parent, hashedFiles, Len(hashedFiles)) IN
     /\ parent' = gm.parent
     /\ groups' = SimilarGroups(gm.map)
  /\ pc' = "done"
  /\ outcome' = "ok"
  /\ UNCHANGED <<abortedAtCall, discoveryVars, componentVars, hashLog>>
  /\ UNCHANGED <<files, threshold, aborted, i, k, hashMap, duplicateEntries,
                 downloadedCount, hashedFiles, progress, cachedFile,
                 fetchLog, caught>>

\* The thresholds findSimilarDuplicates is called with.
Thresholds == {-1, 0, 2}

\* md5 on every resource, on none, or on all but the first.
SimilarProfiles(n) ==
  { [p \in 1..n |-> "md5"], [p \in 1..n |-> "none"],
    [p \in 1..n |-> IF p = 1 THEN "none" ELSE "md5"] }

SimilarInputs ==
  UNION { LocalLists(n, Contents) \cup RemoteLists(n, Contents, SimilarProfiles(n)) :
          n \in 0..MaxSimilarFiles }

InitSimilar ==
  /\ files \in SimilarInputs
  /\ threshold \in Thresholds
  /\ aborted \in BOOLEAN
  /\ abortedAtCall = aborted
  /\ pc = "similar"
  /\ outcome = "running"
  /\ i = 0
  /\ k = 0
  /\ hashMap = <<>>
  /\ duplicateEntries = <<>>
  /\ downloadedCount = 0
  /\ hashedFiles = <<>>
  /\ parent = <<>>
  /\ groups = <<>>
  /\ progress = <<>>
  /\ cachedFile = LocalEntries(files)
  /\ fetchLog = <<>>
  /\ caught = <<>>
  /\ hashLog = <<>>
  /\ DiscoveryIdle
  /\ ComponentsIdle

NextSimilar ==
  \/ SimilarEnter
  \/ SmLoop \/ SmFetchOk \/ SmDupeOk \/ SmDecodeFail \/ SmFetchFail
  \/ SfLoop \/ SfFetchOk \/ SfDecodeFail \/ SfFetchFail
  \/ StartCompare \/ ComparePair \/ CompareRowEnd \/ CollectGroups
  \/ Yield \/ Abort

SpecSimilar == InitSimilar /\ [][NextSimilar]_vars

\* Either grouper, called once.
InitGroupers == InitExact \/ InitSimilar

NextGroupers == NextExact \/ NextSimilar

SpecGroupers == InitGroupers /\ [][NextGroupers]_vars

----------------------------------------------------------------------------
(* fileSystem.ts: paths, names, the sources and the directory tree         *)

\* The variables only the groupers use.
grouperState == <<files, threshold, i, k, hashMap, duplicateEntries,
                  downloadedCount, hashedFiles, parent, groups, progress,
                  cachedFile, fetchLog, caught, hashLog>>

\* No grouper is running.
GroupersIdle ==
  /\ files = <<>>
  /\ threshold = 0
  /\ i = 0
  /\ k = 0
  /\ hashMap = <<>>
  /\ duplicateEntries = <<>>
  /\ downloadedCount = 0
  /\ hashedFiles = <<>>
  /\ parent = <<>>
  /\ groups = <<>>
  /\ progress = <<>>
  /\ cachedFile = {}
  /\ fetchLog = <<>>
  /\ caught = <<>>
  /\ hashLog = <<>>

\* A path string is its prefix and its '/'-separated segments: 'a/b' is
\* Path(<<"a", "b">>), '' is Path(<<>>), 'disk:/Photos' is
\* DiskPath(<<"Photos">>).  A Yandex path is absolute, so '/Photos' has
\* the segments <<"Photos">> and '/' has none.
Path(segs) == [disk |-> FALSE, segs |-> segs]
DiskPath(segs) == [disk |-> TRUE, segs |-> segs]

\* relativePath.slice(0, relativePath.lastIndexOf('/'))
Front(s) == SubSeq(s, 1, Len(s) - 1)
Last(s) == s[Len(s)]

\* name.slice(name.lastIndexOf('.')): the suffix from the last '.', or the
\* last character of a name without one.
Suffix(name) ==
  CASE name = "a.jpg" -> ".jpg"
    [] name = "b.PNG" -> ".PNG"
    [] name = "c.webp" -> ".webp"
    [] name = "notes.txt" -> ".txt"
    [] name = "README" -> "E"

toLowerCase(s) ==
  CASE s = ".PNG" -> ".png"
    [] s = "E" -> "e"
    [] OTHER -> s

IMAGE_EXTENSIONS == {".jpg", ".jpeg", ".png", ".webp", ".gif", ".bmp", ".avif"}

\* A test that compares the suffix as written.
isImageFileCaseSensitive(name) == Suffix(name) \in IMAGE_EXTENSIONS

isImageFile(name) == toLowerCase(Suffix(name)) \in IMAGE_EXTENSIONS

\* Entries of a FileSystemDirectoryHandle.
FileHandle(name) == [kind |-> "file", name |-> name]
DirectoryHandle(name) == [kind |-> "directory", name |-> name]

\* The name of the picked directory (handle.name).
HandleName == "picked"

\* The directory trees behind the picked handle: each maps the path of a
\* directory to what its values() iterator yields, in order.
HandleTrees ==
  { (<<>> :> <<>>),
    (<<>> :> <<FileHandle("a.jpg"), FileHandle("notes.txt"),
               FileHandle("b.PNG")>>),
    (<<>> :> <<FileHandle("a.jpg"), DirectoryHandle("sub"),
               FileHandle("README")>>)
      @@ (<<"sub">> :> <<FileHandle("b.PNG")>>),
    (<<>> :> <<DirectoryHandle("sub"), DirectoryHandle("2020")>>)
      @@ (<<"sub">> :> <<DirectoryHandle("deep"), FileHandle("a.jpg")>>)
      @@ (<<"sub", "deep">> :> <<FileHandle("c.webp")>>)
      @@ (<<"2020">> :> <<>>) }

\* A File of a FileList: its name and webkitRelativePath ('' is <<>>).
ListedFile(rel, name) == [name |-> name, webkitRelativePath |-> rel]

FileLists ==
  { <<>>,
    <<ListedFile(<<>>, "a.jpg"), ListedFile(<<>>, "notes.txt")>>,
    <<ListedFile(<<"dir", "a.jpg">>, "a.jpg"),
      ListedFile(<<"dir", "sub", "b.PNG">>, "b.PNG"),
      ListedFile(<<"dir", "notes.txt">>, "notes.txt")>>,
    <<ListedFile(<<"dir", "sub", "deep", "c.webp">>, "c.webp"),
      ListedFile(<<"dir", "b.PNG">>, "b.PNG"),
      ListedFile(<<"other", "a.jpg">>, "a.jpg"),
      ListedFile(<<"dir", "sub", "README">>, "README")>> }

\* Items of the remote Disk: YandexResource (file) and
\* YandexFolderResource (dir).
Resource(name, mime, md5, sha256) ==
  [type |-> "file", name |-> name, mime_type |-> mime, md5 |-> md5,
   sha256 |-> sha256]
FolderResource(name) ==
  [type |-> "dir", name |-> name, mime_type |-> "", md5 |-> "",
   sha256 |-> ""]

\* The folders of the remote Disk and their items, in listing order.
RemoteTree ==
  (<<>> :> <<FolderResource("Photos"), FolderResource("Docs"),
             FolderResource("Raw")>>)
  @@ (<<"Photos">> :> <<Resource("a.jpg", "image/jpeg", "md5-1", "sha-1"),
                         FolderResource("2020")>>)
  @@ (<<"Photos", "2020">> :>
        <<Resource("b.PNG", "image/png", "md5-2", ""),
          Resource("notes.txt", "text/plain", "md5-3", "sha-3")>>)
  @@ (<<"Docs">> :> <<Resource("README", "image/x-raw", "md5-4", "sha-4")>>)
  @@ (<<"Raw">> :> <<Resource("c.webp", "image/webp", "", "")>>)

\* The folder selections discoverFiles is called with.
FolderSelections ==
  { <<>>,
    <<Path(<<"Photos">>)>>,
    <<DiskPath(<<"Photos", "2020">>)>>,
    <<Path(<<>>)>>,
    <<DiskPath(<<"Docs">>)>>,
    <<Path(<<"Photos">>), Path(<<"Photos", "2020">>)>>,
    <<DiskPath(<<"Photos", "2020">>), DiskPath(<<"Photos">>)>> }

Sources ==
  { [type |-> "handle", tree |-> t] : t \in HandleTrees }
  \cup { [type |-> "fileList", files |-> fl] : fl \in FileLists }
  \cup { [type |-> "yandex", folderPaths |-> fp] : fp \in FolderSelections }

\* A DirectoryTreeNode; children holds node ids (positions in nodes).
TreeNode(name, path, completed) ==
  [name |-> name, path |-> path, children |-> <<>>,
   completed |-> completed, fileCount |-> 0]

\* nodeMap: every created node is set under its path, a later set
\* replacing an earlier one.
nodeMapHas(ns, path) == \E n \in 1..Len(ns) : ns[n].path = path

nodeMapGet(ns, path) ==
  CHOOSE n \in 1..Len(ns) :
    /\ ns[n].path = path
    /\ \A m \in 1..Len(ns) : ns[m].path = path => m <= n

nodeMapSize(ns) == Cardinality({ ns[n].path : n \in 1..Len(ns) })

\* structuredClone(rootNodes): the roots and every node, by value.
treeSnapshot(roots, ns) == [roots |-> roots, nodes |-> ns]

\* One OnDiscoveryProgress call; directoryTree is <<>> when absent and
\* <<tree>> when present, cloned telling a snapshot from the live array.
DiscoveryProgress(d, f, current, tree) ==
  [directoriesFound |-> d, filesFound |-> f, currentDirectory |-> current,
   directoryTree |-> tree]

LiveTree(roots, ns) == <<[tree |-> treeSnapshot(roots, ns), cloned |-> FALSE]>>

\* An onProgress call that hands over the walker's own array where the code
\* hands over treeSnapshot().
WithoutClone(roots, ns) == LiveTree(roots, ns)

WithTree(roots, ns) == <<[tree |-> treeSnapshot(roots, ns), cloned |-> TRUE]>>
NoTree == <<>>

\* currentNode.fileCount += 1
CountFile(ns, n) == [ns EXCEPT ![n].fileCount = @ + 1]

\* parent.children.push(node)
PushChild(ns, n, child) == [ns EXCEPT ![n].children = Append(@, child)]

\* The call rejects with err.
Reject(err) ==
  /\ pc' = "failed"
  /\ outcome' = err

\* A walk frame: the directory, its node and how many entries its
\* iterator has yielded.
Frame(path, node) == [path |-> path, node |-> node, idx |-> 0]

Top == stack[Len(stack)]
TopEntries == source.tree[Top.path]
Advance(st) == [st EXCEPT ![Len(st)].idx = @ + 1]

----------------------------------------------------------------------------
(* discoverFiles, handle source: discoverFromHandle and its walk()         *)

\* currentDirectory: basePath || handle.name
WalkDirectory(path) == IF path = <<>> THEN Path(<<HandleName>>) ELSE Path(path)

\* discoverFromHandle up to the first await of walk(handle, ''): the root
\* node, dirs += 1 and the first onProgress, before any look at the signal.
DiscoverFromHandle ==
  /\ pc = "discover"
  /\ source.type = "handle"
  /\ dirs' = 1
  /\ nodes' = <<TreeNode(HandleName, <<>>, FALSE)>>
  /\ rootNodes' = <<1>>
  /\ dprogress' = Append(dprogress,
       DiscoveryProgress(1, filesFound, WalkDirectory(<<>>),
                         WithTree(<<1>>, nodes')))
  /\ stack' = <<Frame(<<>>, 1)>>
  /\ pc' = "hd_next"
  /\ UNCHANGED <<aborted, abortedAtCall, outcome, grouperState,
                 componentVars>>
  /\ UNCHANGED <<op, source, filesFound, cachedEntries, pos, result,
                 results, onFileLog>>

\* The iterator yields an entry and the signal is aborted.
HdAborted ==
  /\ pc = "hd_next"
  /\ Top.idx < Len(TopEntries)
  /\ aborted
  /\ Reject(AbortError)
  /\ UNCHANGED <<aborted, abortedAtCall, grouperState,
                 componentVars>>
  /\ UNCHANGED <<op, source, dirs, filesFound, nodes, rootNodes,
                 cachedEntries, dprogress, stack, pos, result, results,
                 onFileLog>>

\* The iterator yields a file: counted if its name is an image's.
HdFile ==
  /\ pc = "hd_next"
  /\ Top.idx < Len(TopEntries)
  /\ ~aborted
  /\ LET entry == TopEntries[Top.idx + 1] IN
       /\ entry.kind = "file"
       /\ IF isImageFile(entry.name)
            THEN /\ filesFound' = filesFound + 1
                 /\ nodes' = CountFile(nodes, Top.node)
            ELSE UNCHANGED <<filesFound, nodes>>
  /\ stack' = Advance(stack)
  /\ UNCHANGED <<aborted, abortedAtCall, pc, outcome, grouperState,
                 componentVars>>
  /\ UNCHANGED <<op, source, dirs, rootNodes, cachedEntries, dprogress,
                 pos, result, results, onFileLog>>

\* The iterator yields a directory: its node is created and walk() runs on
\* it up to its own first await (dirs += 1, onProgress with a snapshot).
HdDirectory ==
  /\ pc = "hd_next"
  /\ Top.idx < Len(TopEntries)
  /\ ~aborted
  /\ LET entry == TopEntries[Top.idx + 1]
         entryPath == Top.path \o <<entry.name>>
         child == Len(nodes) + 1
     IN
       /\ entry.kind = "directory"
       /\ nodes' = PushChild(Append(nodes, TreeNode(entry.name, entryPath, FALSE)),
                             Top.node, child)
       /\ dirs' = dirs + 1
       /\ dprogress' = Append(dprogress,
            DiscoveryProgress(dirs + 1, filesFound, WalkDirectory(entryPath),
                              WithTree(rootNodes, nodes')))
       /\ stack' = Append(Advance(stack), Frame(entryPath, child))
  /\ UNCHANGED <<aborted, abortedAtCall, pc, outcome, grouperState,
                 componentVars>>
  /\ UNCHANGED <<op, source, filesFound, rootNodes, cachedEntries, pos,
                 result, results, onFileLog>>

\* A walk() that on returning completes rootNode where the code completes
\* currentNode.
HdCompleteMarksRoot ==
  /\ pc = "hd_next"
  /\ Top.idx = Len(TopEntries)
  /\ nodes' = [nodes EXCEPT ![rootNodes[1]].completed = TRUE]
  /\ dprogress' = Append(dprogress,
       DiscoveryProgress(dirs, filesFound, WalkDirectory(Top.path),
                         WithTree(rootNodes, nodes')))
  /\ stack' = Front(stack)
  /\ IF Len(stack) = 1
       THEN /\ result' = [type |-> "handle", totalDirectories |-> dirs,
                          totalFiles |-> filesFound]
            /\ pc' = "done"
            /\ outcome' = "ok"
       ELSE UNCHANGED <<result, pc, outcome>>
  /\ UNCHANGED <<aborted, abortedAtCall, grouperState,
                 componentVars>>
  /\ UNCHANGED <<op, source, dirs, filesFound, rootNodes, cachedEntries,
                 pos, results, onFileLog>>

\* The iterator is exhausted: the directory is completed and reported; the
\* outermost walk() returning ends discoverFromHandle.
HdComplete ==
  /\ pc = "hd_next"
  /\ Top.idx = Len(TopEntries)
  /\ nodes' = [nodes EXCEPT ![Top.node].completed = TRUE]
  /\ dprogress' = Append(dprogress,
       DiscoveryProgress(dirs, filesFound, WalkDirectory(Top.path),
                         WithTree(rootNodes, nodes')))
  /\ stack' = Front(stack)
  /\ IF Len(stack) = 1
       THEN /\ result' = [type |-> "handle", totalDirectories |-> dirs,
                          totalFiles |-> filesFound]
            /\ pc' = "done"
            /\ outcome' = "ok"
       ELSE UNCHANGED <<result, pc, outcome>>
  /\ UNCHANGED <<aborted, abortedAtCall, grouperState,
                 componentVars>>
  /\ UNCHANGED <<op, source, dirs, filesFound, rootNodes, cachedEntries,
                 pos, results, onFileLog>>

\* dirHandle.values() rejects (the directory cannot be read).
HdListFail ==
  /\ pc = "hd_next"
  /\ Reject(SourceAccessFailure)
  /\ UNCHANGED <<aborted, abortedAtCall, grouperState,
                 componentVars>>
  /\ UNCHANGED <<op, source, dirs, filesFound, nodes, rootNodes,
                 cachedEntries, dprogress, stack, pos, result, results,
                 onFileLog>>

----------------------------------------------------------------------------
(* discoverFiles, fileList source: discoverFromFileList                    *)

\* file.webkitRelativePath || file.name
RelativePath(file) ==
  IF file.webkitRelativePath # <<>> THEN file.webkitRelativePath
  ELSE <<file.name>>

\* The loop over dirPath.split('/'): every missing prefix gets a node,
\* under its parent's node or among the roots.  j counts the parts done.
RECURSIVE EnsureDirectories(_, _, _, _)
EnsureDirectories(roots, ns, parts, j) ==
  IF j = Len(parts) THEN [roots |-> roots, nodes |-> ns]
  ELSE LET parentPath == SubSeq(parts, 1, j)
           currentPath == SubSeq(parts, 1, j + 1)
           id == Len(ns) + 1
           added == Append(ns, TreeNode(parts[j + 1], currentPath, TRUE))
       IN IF nodeMapHas(ns, currentPath)
            THEN EnsureDirectories(roots, ns, parts, j + 1)
          ELSE IF parentPath # <<>>
            THEN EnsureDirectories(roots,
                   PushChild(added, nodeMapGet(ns, parentPath), id),
                   parts, j + 1)
          ELSE EnsureDirectories(Append(roots, id), added, parts, j + 1)

DiscoverFromFileList ==
  /\ pc = "discover"
  /\ source.type = "fileList"
  /\ pc' = "fl_loop"
  /\ UNCHANGED <<aborted, abortedAtCall, outcome, grouperState,
                 componentVars>>
  /\ UNCHANGED discoveryVars

\* One iteration of the loop over fileList.
FlLoop ==
  /\ pc = "fl_loop"
  /\ pos < Len(source.files)
  /\ IF aborted
       THEN /\ Reject(AbortError)
            /\ UNCHANGED <<pos, filesFound, nodes, rootNodes>>
       ELSE LET file == source.files[pos + 1]
                relativePath == RelativePath(file)
                dirPath == Front(relativePath)
                tree == EnsureDirectories(rootNodes, nodes, dirPath, 0)
            IN
              /\ pos' = pos + 1
              /\ UNCHANGED <<pc, outcome>>
              /\ IF ~isImageFile(file.name)
                   THEN UNCHANGED <<filesFound, nodes, rootNodes>>
                   ELSE /\ filesFound' = filesFound + 1
                        /\ rootNodes' = tree.roots
                        /\ nodes' = IF dirPath # <<>>
                                      THEN CountFile(tree.nodes,
                                             nodeMapGet(tree.nodes, dirPath))
                                      ELSE nodes
  /\ UNCHANGED <<aborted, abortedAtCall, grouperState,
                 componentVars>>
  /\ UNCHANGED <<op, source, dirs, cachedEntries, dprogress, stack, result,
                 results, onFileLog>>

\* After the loop: the one onProgress call, handed the live rootNodes.
FlReturn ==
  /\ pc = "fl_loop"
  /\ pos = Len(source.files)
  /\ dprogress' = Append(dprogress,
       DiscoveryProgress(nodeMapSize(nodes), filesFound, Path(<<>>),
                         LiveTree(rootNodes, nodes)))
  /\ result' = [type |-> "fileList", totalDirectories |-> nodeMapSize(nodes),
                totalFiles |-> filesFound]
  /\ pc' = "done"
  /\ outcome' = "ok"
  /\ UNCHANGED <<aborted, abortedAtCall, grouperState,
                 componentVars>>
  /\ UNCHANGED <<op, source, dirs, filesFound, nodes, rootNodes,
                 cachedEntries, stack, pos, results, onFileLog>>

----------------------------------------------------------------------------
(* discoverFiles, yandex source: the listing and discoverFromYandex        *)

\* r.mime_type?.startsWith('image/')
IsImageMime(m) == m \in {"image/jpeg", "image/png", "image/x-raw"}

\* isImageFile of yandexDisk.ts: by mime type or by IMAGE_EXTS, the same
\* suffixes matched case-insensitively.
IsImageResource(r) == IsImageMime(r.mime_type) \/ isImageFile(r.name)

\* What the listing does next: fetch a page of a folder (after a look at
\* the signal), or report a directory entered, a file, a directory done.
ListingStep(kind, path, resource) ==
  [kind |-> kind, path |-> path, resource |-> resource]

\* listImagesFromFolder: the page, then every item in order, recursing
\* into a dir item with the item's path ('disk:/...').
RECURSIVE FolderSteps(_)
RECURSIVE ItemSteps(_, _, _)
ItemSteps(dir, items, n) ==
  IF n > Len(items) THEN <<>>
  ELSE LET item == items[n]
           itemPath == DiskPath(dir \o <<item.name>>)
       IN (IF item.type = "file" /\ IsImageResource(item)
             THEN <<ListingStep("file", itemPath, item)>>
           ELSE IF item.type = "dir" THEN FolderSteps(itemPath)
           ELSE <<>>)
          \o ItemSteps(dir, items, n + 1)

FolderSteps(folderPath) ==
  <<ListingStep("page", folderPath, FolderResource("")),
    ListingStep("enter", folderPath, FolderResource(""))>>
  \o ItemSteps(folderPath.segs, RemoteTree[folderPath.segs], 1)
  \o <<ListingStep("complete", folderPath, FolderResource(""))>>

\* The flat list of resources/files: every image of the Disk, no folders.
RECURSIVE AllFiles(_, _, _)
AllFiles(dir, items, n) ==
  IF n > Len(items) THEN <<>>
  ELSE LET item == items[n]
           itemPath == DiskPath(dir \o <<item.name>>)
       IN (IF item.type = "dir"
             THEN AllFiles(itemPath.segs, RemoteTree[itemPath.segs], 1)
           ELSE IF IsImageResource(item)
             THEN <<ListingStep("file", itemPath, item)>>
           ELSE <<>>)
          \o AllFiles(dir, items, n + 1)

\* listImageFiles: folder by folder, or the flat list for no folders.
RECURSIVE SelectedFolderSteps(_, _)
SelectedFolderSteps(folderPaths, n) ==
  IF n > Len(folderPaths) THEN <<>>
  ELSE FolderSteps(folderPaths[n]) \o SelectedFolderSteps(folderPaths, n + 1)

ListingSteps(folderPaths) ==
  IF Len(folderPaths) > 0 THEN SelectedFolderSteps(folderPaths, 1)
  ELSE <<ListingStep("page", DiskPath(<<>>), FolderResource(""))>>
       \o AllFiles(<<>>, RemoteTree[<<>>], 1)

Listing == ListingSteps(source.folderPaths)
Step == Listing[pos + 1]

\* normalizeDiskPath(p): p without 'disk:', '/' for an empty rest.
normalizeDiskPath(p) == p.segs

\* ensureParentChain(normalizedPath): the parent's node, or null (0) when
\* the parent path is '' or has no node.
ensureParentChain(ns, normalized) ==
  IF Len(normalized) > 1 /\ nodeMapHas(ns, Front(normalized))
    THEN nodeMapGet(ns, Front(normalized))
    ELSE 0

\* normalized.split('/').pop() || normalized
NodeName(normalized) == IF normalized = <<>> THEN "/" ELSE Last(normalized)

\* The FileEntry cached for a resource.
RemoteEntry(path, resource) ==
  [path |-> path, name |-> resource.name, md5 |-> resource.md5,
   sha256 |-> resource.sha256, local |-> FALSE]

DiscoverFromYandex ==
  /\ pc = "discover"
  /\ source.type = "yandex"
  /\ pc' = "yx"
  /\ UNCHANGED <<aborted, abortedAtCall, outcome, grouperState,
                 componentVars>>
  /\ UNCHANGED discoveryVars

\* The listing looks at the signal, then awaits the page of a folder.
YxPage ==
  /\ pc = "yx"
  /\ pos < Len(Listing)
  /\ Step.kind = "page"
  /\ IF aborted THEN Reject(AbortError)
     ELSE /\ pc' = "yx_fetch"
          /\ UNCHANGED outcome
  /\ UNCHANGED <<aborted, abortedAtCall, grouperState,
                 componentVars>>
  /\ UNCHANGED discoveryVars

YxFetchOk ==
  /\ pc = "yx_fetch"
  /\ pc' = "yx"
  /\ pos' = pos + 1
  /\ UNCHANGED <<aborted, abortedAtCall, outcome, grouperState,
                 componentVars>>
  /\ UNCHANGED <<op, source, dirs, filesFound, nodes, rootNodes,
                 cachedEntries, dprogress, stack, result, results,
                 onFileLog>>

\* The page request fails or is aborted.
YxFetchFail ==
  /\ pc = "yx_fetch"
  /\ \E err \in FetchErrors : Reject(err)
  /\ UNCHANGED <<aborted, abortedAtCall, grouperState,
                 componentVars>>
  /\ UNCHANGED discoveryVars

\* onDirectoryEnter: dirs += 1, then a node unless the path has one.
YxOnDirectoryEnter ==
  /\ pc = "yx"
  /\ pos < Len(Listing)
  /\ Step.kind = "enter"
  /\ dirs' = dirs + 1
  /\ LET folderPath == Step.path
         normalized == normalizeDiskPath(folderPath)
         id == Len(nodes) + 1
         added == Append(nodes, TreeNode(NodeName(normalized), normalized, FALSE))
         parentNode == ensureParentChain(added, normalized)
     IN IF nodeMapHas(nodes, normalized)
          THEN /\ dprogress' = Append(dprogress,
                    DiscoveryProgress(dirs', filesFound, folderPath, NoTree))
               /\ UNCHANGED <<nodes, rootNodes>>
          ELSE /\ nodes' = IF parentNode # 0
                             THEN PushChild(added, parentNode, id) ELSE added
               /\ rootNodes' = IF parentNode # 0 THEN rootNodes
                               ELSE Append(rootNodes, id)
               /\ dprogress' = Append(dprogress,
                    DiscoveryProgress(dirs', filesFound, folderPath,
                                      WithTree(rootNodes', nodes')))
  /\ pos' = pos + 1
  /\ UNCHANGED <<aborted, abortedAtCall, pc, outcome, grouperState,
                 componentVars>>
  /\ UNCHANGED <<op, source, filesFound, cachedEntries, stack, result,
                 results, onFileLog>>

\* onFile: files += 1, the directory node's fileCount, the cached entry
\* and an onProgress without a tree.
YxOnFile ==
  /\ pc = "yx"
  /\ pos < Len(Listing)
  /\ Step.kind = "file"
  /\ filesFound' = filesFound + 1
  /\ LET path == Step.path.segs
         dirPath == Front(path)
     IN
       /\ nodes' = IF nodeMapHas(nodes, dirPath)
                     THEN CountFile(nodes, nodeMapGet(nodes, dirPath))
                     ELSE nodes
       /\ cachedEntries' = Append(cachedEntries, RemoteEntry(path, Step.resource))
       /\ dprogress' = Append(dprogress,
            DiscoveryProgress(dirs, filesFound', Path(dirPath), NoTree))
  /\ pos' = pos + 1
  /\ UNCHANGED <<aborted, abortedAtCall, pc, outcome, grouperState,
                 componentVars>>
  /\ UNCHANGED <<op, source, dirs, rootNodes, stack, result, results,
                 onFileLog>>

\* onDirectoryComplete: the node is completed and a snapshot reported.
YxOnDirectoryComplete ==
  /\ pc = "yx"
  /\ pos < Len(Listing)
  /\ Step.kind = "complete"
  /\ LET folderPath == Step.path
         normalized == normalizeDiskPath(folderPath)
     IN
       /\ nodes' = IF nodeMapHas(nodes, normalized)
                     THEN [nodes EXCEPT
                             ![nodeMapGet(nodes, normalized)].completed = TRUE]
                     ELSE nodes
       /\ dprogress' = Append(dprogress,
            DiscoveryProgress(dirs, filesFound, folderPath,
                              WithTree(rootNodes, nodes')))
  /\ pos' = pos + 1
  /\ UNCHANGED <<aborted, abortedAtCall, pc, outcome, grouperState,
                 componentVars>>
  /\ UNCHANGED <<op, source, dirs, filesFound, rootNodes, cachedEntries,
                 stack, result, results, onFileLog>>

\* listImageFiles resolved: the result with the counts and the cache.
YxReturn ==
  /\ pc = "yx"
  /\ pos = Len(Listing)
  /\ result' = [type |-> "yandex", totalDirectories |-> dirs,
                totalFiles |-> filesFound]
  /\ pc' = "done"
  /\ outcome' = "ok"
  /\ UNCHANGED <<aborted, abortedAtCall, grouperState,
                 componentVars>>
  /\ UNCHANGED <<op, source, dirs, filesFound, nodes, rootNodes,
                 cachedEntries, dprogress, stack, pos, results, onFileLog>>

----------------------------------------------------------------------------
(* collectFileEntries                                                      *)

\* The FileEntry of a local file.
LocalEntry(path) ==
  [path |-> path, name |-> "", md5 |-> "", sha256 |-> "", local |-> TRUE]

\* collectFileEntries(discovery, onFile, signal) is called with the result
\* of a discovery; the user may have cancelled in between.
CollectCall(type) ==
  /\ pc = "done"
  /\ op = "discoverFiles"
  /\ outcome = "ok"
  /\ result.type = type
  /\ op' = "collectFileEntries"
  /\ outcome' = "running"
  /\ \E cancel \in BOOLEAN : aborted' = (aborted \/ cancel)
  /\ abortedAtCall' = aborted'
  /\ pos' = 0
  /\ UNCHANGED <<grouperState, componentVars>>
  /\ UNCHANGED <<source, dirs, filesFound, nodes, rootNodes, cachedEntries,
                 dprogress, result, results, onFileLog>>

\* discovery.type === 'handle': scanDirectoryHandle(discovery.handle, ...)
CollectFromHandle ==
  /\ CollectCall("handle")
  /\ stack' = <<Frame(<<>>, 0)>>
  /\ pc' = "sc_next"

\* The iterator yields an entry and the signal is aborted.
ScAborted ==
  /\ pc = "sc_next"
  /\ Top.idx < Len(TopEntries)
  /\ aborted
  /\ Reject(AbortError)
  /\ UNCHANGED <<aborted, abortedAtCall, grouperState,
                 componentVars>>
  /\ UNCHANGED discoveryVars

\* The iterator yields a file: an image's content is requested.
ScFile ==
  /\ pc = "sc_next"
  /\ Top.idx < Len(TopEntries)
  /\ ~aborted
  /\ LET entry == TopEntries[Top.idx + 1] IN
       /\ entry.kind = "file"
       /\ IF isImageFile(entry.name)
            THEN /\ pc' = "sc_getfile"
                 /\ UNCHANGED stack
            ELSE /\ stack' = Advance(stack)
                 /\ UNCHANGED pc
  /\ UNCHANGED <<aborted, abortedAtCall, outcome, grouperState,
                 componentVars>>
  /\ UNCHANGED <<op, source, dirs, filesFound, nodes, rootNodes,
                 cachedEntries, dprogress, pos, result, results, onFileLog>>

\* A scan that pushes the entry and does not tell the observer.
ScGetFileOkUnreported ==
  /\ pc = "sc_getfile"
  /\ results' = Append(results,
       LocalEntry(Top.path \o <<TopEntries[Top.idx + 1].name>>))
  /\ stack' = Advance(stack)
  /\ pc' = "sc_next"
  /\ UNCHANGED <<aborted, abortedAtCall, outcome, grouperState,
                 componentVars>>
  /\ UNCHANGED <<op, source, dirs, filesFound, nodes, rootNodes,
                 cachedEntries, dprogress, pos, result, onFileLog>>

\* entry.getFile() resolved: results.push(fileEntry); onFile(fileEntry)
ScGetFileOk ==
  /\ pc = "sc_getfile"
  /\ LET entry == TopEntries[Top.idx + 1]
         fileEntry == LocalEntry(Top.path \o <<entry.name>>)
     IN
       /\ results' = Append(results, fileEntry)
       /\ onFileLog' = Append(onFileLog, fileEntry)
  /\ stack' = Advance(stack)
  /\ pc' = "sc_next"
  /\ UNCHANGED <<aborted, abortedAtCall, outcome, grouperState,
                 componentVars>>
  /\ UNCHANGED <<op, source, dirs, filesFound, nodes, rootNodes,
                 cachedEntries, dprogress, pos, result>>

\* entry.getFile() rejects (the file cannot be read).
ScGetFileFail ==
  /\ pc = "sc_getfile"
  /\ Reject(SourceAccessFailure)
  /\ UNCHANGED <<aborted, abortedAtCall, grouperState,
                 componentVars>>
  /\ UNCHANGED discoveryVars

\* A scan that lists a directory without descending into it.
ScDirectoryNotEntered ==
  /\ pc = "sc_next"
  /\ Top.idx < Len(TopEntries)
  /\ ~aborted
  /\ TopEntries[Top.idx + 1].kind = "directory"
  /\ stack' = Advance(stack)
  /\ UNCHANGED <<aborted, abortedAtCall, pc, outcome, grouperState,
                 componentVars>>
  /\ UNCHANGED <<op, source, dirs, filesFound, nodes, rootNodes,
                 cachedEntries, dprogress, pos, result, results, onFileLog>>

\* The iterator yields a directory: scanDirectoryHandle recurses.
ScDirectory ==
  /\ pc = "sc_next"
  /\ Top.idx < Len(TopEntries)
  /\ ~aborted
  /\ LET entry == TopEntries[Top.idx + 1] IN
       /\ entry.kind = "directory"
       /\ stack' = Append(Advance(stack), Frame(Top.path \o <<entry.name>>, 0))
  /\ UNCHANGED <<aborted, abortedAtCall, pc, outcome, grouperState,
                 componentVars>>
  /\ UNCHANGED <<op, source, dirs, filesFound, nodes, rootNodes,
                 cachedEntries, dprogress, pos, result, results, onFileLog>>

\* The iterator is exhausted: this scanDirectoryHandle returns, the
\* outermost one ending collectFileEntries with results.
ScComplete ==
  /\ pc = "sc_next"
  /\ Top.idx = Len(TopEntries)
  /\ stack' = Front(stack)
  /\ IF Len(stack) = 1
       THEN /\ pc' = "done"
            /\ outcome' = "ok"
       ELSE UNCHANGED <<pc, outcome>>
  /\ UNCHANGED <<aborted, abortedAtCall, grouperState,
                 componentVars>>
  /\ UNCHANGED <<op, source, dirs, filesFound, nodes, rootNodes,
                 cachedEntries, dprogress, pos, result, results, onFileLog>>

\* dirHandle.values() rejects (the directory cannot be read).
ScListFail ==
  /\ pc = "sc_next"
  /\ Reject(SourceAccessFailure)
  /\ UNCHANGED <<aborted, abortedAtCall, grouperState,
                 componentVars>>
  /\ UNCHANGED discoveryVars

\* discovery.type === 'fileList': collectFromFileList(discovery.files, ...)
CollectFromFileList ==
  /\ CollectCall("fileList")
  /\ pc' = "cl_loop"
  /\ UNCHANGED stack

\* One iteration of the loop of collectFromFileList.
ClLoop ==
  /\ pc = "cl_loop"
  /\ pos < Len(source.files)
  /\ IF aborted
       THEN /\ Reject(AbortError)
            /\ UNCHANGED <<pos, results, onFileLog>>
       ELSE LET file == source.files[pos + 1]
                fileEntry == LocalEntry(RelativePath(file))
            IN
              /\ pos' = pos + 1
              /\ UNCHANGED <<pc, outcome>>
              /\ IF isImageFile(file.name)
                   THEN /\ results' = Append(results, fileEntry)
                        /\ onFileLog' = Append(onFileLog, fileEntry)
                   ELSE UNCHANGED <<results, onFileLog>>
  /\ UNCHANGED <<aborted, abortedAtCall, grouperState,
                 componentVars>>
  /\ UNCHANGED <<op, source, dirs, filesFound, nodes, rootNodes,
                 cachedEntries, dprogress, stack, result>>

ClReturn ==
  /\ pc = "cl_loop"
  /\ pos = Len(source.files)
  /\ pc' = "done"
  /\ outcome' = "ok"
  /\ UNCHANGED <<aborted, abortedAtCall, grouperState,
                 componentVars>>
  /\ UNCHANGED discoveryVars

\* discovery.type === 'yandex': the cached entries are replayed.
CollectFromYandex ==
  /\ CollectCall("yandex")
  /\ pc' = "cy_loop"
  /\ UNCHANGED stack

\* One iteration of for (const entry of discovery.cachedEntries).
CyLoop ==
  /\ pc = "cy_loop"
  /\ pos < Len(cachedEntries)
  /\ IF aborted
       THEN /\ Reject(AbortError)
            /\ UNCHANGED <<pos, onFileLog>>
       ELSE /\ onFileLog' = Append(onFileLog, cachedEntries[pos + 1])
            /\ pos' = pos + 1
            /\ UNCHANGED <<pc, outcome>>
  /\ UNCHANGED <<aborted, abortedAtCall, grouperState,
                 componentVars>>
  /\ UNCHANGED <<op, source, dirs, filesFound, nodes, rootNodes,
                 cachedEntries, dprogress, stack, result, results>>

\* return discovery.cachedEntries
CyReturn ==
  /\ pc = "cy_loop"
  /\ pos = Len(cachedEntries)
  /\ results' = cachedEntries
  /\ pc' = "done"
  /\ outcome' = "ok"
  /\ UNCHANGED <<aborted, abortedAtCall, grouperState,
                 componentVars>>
  /\ UNCHANGED <<op, source, dirs, filesFound, nodes, rootNodes,
                 cachedEntries, dprogress, stack, pos, result, onFileLog>>

----------------------------------------------------------------------------
(* A scan: discoverFiles, then collectFileEntries on its result            *)

InitDiscover ==
  /\ GroupersIdle
  /\ ComponentsIdle
  /\ op = "discoverFiles"
  /\ source \in Sources
  /\ aborted \in BOOLEAN
  /\ abortedAtCall = aborted
  /\ pc = "discover"
  /\ outcome = "running"
  /\ dirs = 0
  /\ filesFound = 0
  /\ nodes = <<>>
  /\ rootNodes = <<>>
  /\ cachedEntries = <<>>
  /\ dprogress = <<>>
  /\ stack = <<>>
  /\ pos = 0
  /\ result = [type |-> "none"]
  /\ results = <<>>
  /\ onFileLog = <<>>

NextDiscover ==
  \/ DiscoverFromHandle
  \/ HdAborted \/ HdFile \/ HdDirectory \/ HdComplete \/ HdListFail
  \/ DiscoverFromFileList \/ FlLoop \/ FlReturn
  \/ DiscoverFromYandex
  \/ YxPage \/ YxFetchOk \/ YxFetchFail
  \/ YxOnDirectoryEnter \/ YxOnFile \/ YxOnDirectoryComplete \/ YxReturn
  \/ CollectFromHandle
  \/ ScAborted \/ ScFile \/ ScGetFileOk \/ ScGetFileFail \/ ScDirectory
  \/ ScComplete \/ ScListFail
  \/ CollectFromFileList \/ ClLoop \/ ClReturn
  \/ CollectFromYandex \/ CyLoop \/ CyReturn
  \/ Abort

SpecDiscover == InitDiscover /\ [][NextDiscover]_vars

----------------------------------------------------------------------------
(* Properties of the groupers                                              *)

\* The entries (positions in files) of group g of the result.
Members(g) == { groups[g].files[m].entry : m \in 1..Len(groups[g].files) }

Grouped == UNION { Members(g) : g \in 1..Len(groups) }

SameGroup(x, y) == \E g \in 1..Len(groups) : x \in Members(g) /\ y \in Members(g)

\* The hash findExactDuplicates identifies entry x by: the metadata value of
\* the kind every entry carries, or else the SHA-256 of its content.
ExactHashOf(x) ==
  IF \A y \in 1..Len(files) : files[y].sha256 # "" THEN files[x].sha256
  ELSE IF \A y \in 1..Len(files) : files[y].md5 # "" THEN files[x].md5
  ELSE computeCryptoHash(files[x].content)

\* C1: a findExactDuplicates call that completes returns exactly the classes
\* of entries with equal hash that have 2+ members: two entries share a group
\* iff their hashes are equal, and an entry is grouped iff another entry has
\* its hash.
C1_ExactGroupsAreHashClasses ==
  (pc = "done") =>
    /\ \A x, y \in 1..Len(files) :
         x # y => (SameGroup(x, y) <=> ExactHashOf(x) = ExactHashOf(y))
    /\ \A x \in 1..Len(files) :
         x \in Grouped <=>
           \E y \in 1..Len(files) : y # x /\ ExactHashOf(y) = ExactHashOf(x)

\* A completed call with two classes in the result and an entry left out.
C1_Witness ==
  /\ pc = "done"
  /\ Len(groups) = 2
  /\ Grouped # 1..Len(files)

\* The hashed files (indices into hashedFiles) linked to a by an edge,
\* an edge being a pair within the threshold.
Edge(a, b) ==
  hammingDistance(hashedFiles[a].hash, hashedFiles[b].hash) <= threshold

RECURSIVE ReachFrom(_)
ReachFrom(S) ==
  LET T == S \cup { b \in 1..Len(hashedFiles) : \E a \in S : Edge(a, b) }
  IN IF T = S THEN S ELSE ReachFrom(T)

Component(a) == ReachFrom({a})

\* C2: findSimilarDuplicates returns exactly the connected components of
\* size 2+ of the graph whose edges are the pairs of hashed entries with
\* hammingDistance <= threshold.
C2_SimilarGroupsAreComponents ==
  (pc = "done") =>
    /\ \A a, b \in 1..Len(hashedFiles) :
         a # b => (SameGroup(hashedFiles[a].entry, hashedFiles[b].entry)
                    <=> b \in Component(a))
    /\ \A a \in 1..Len(hashedFiles) :
         hashedFiles[a].entry \in Grouped <=> Component(a) # {a}
    /\ Grouped \subseteq { hashedFiles[a].entry : a \in 1..Len(hashedFiles) }

\* A returned group holds two entries whose own distance exceeds the
\* threshold: only a chain links them.
C2_Witness ==
  /\ pc = "done"
  /\ \E a, b \in 1..Len(hashedFiles) :
       /\ SameGroup(hashedFiles[a].entry, hashedFiles[b].entry)
       /\ ~Edge(a, b)

\* C3: every returned group has at least 2 members.
C3_GroupsHaveTwoMembers ==
  (pc = "done") => \A g \in 1..Len(groups) : Len(groups[g].files) >= 2

\* findSimilarDuplicates hashed three entries and returned one pair: the
\* third cluster, a singleton, was dropped.
C3_Witness ==
  /\ pc = "done"
  /\ Len(hashedFiles) = 3
  /\ Len(groups) = 1
  /\ Len(groups[1].files) = 2

\* C4: in the result every input entry appears in at most one group and at
\* most once inside it, and only input entries appear.
C4_GroupsAreDisjoint ==
  (pc = "done") =>
    /\ \A g1, g2 \in 1..Len(groups) :
         \A m1 \in 1..Len(groups[g1].files), m2 \in 1..Len(groups[g2].files) :
           groups[g1].files[m1].entry = groups[g2].files[m2].entry
             => (g1 = g2 /\ m1 = m2)
    /\ Grouped \subseteq 1..Len(files)

\* Five entries returned as two groups, of three and of two.
C4_Witness ==
  /\ pc = "done"
  /\ Len(files) = 5
  /\ Len(groups) = 2
  /\ Grouped = 1..5

\* Every entry carries the same sha256 metadata value.
AllSameSha256 ==
  /\ \A x \in 1..Len(files) : files[x].sha256 # ""
  /\ \A x, y \in 1..Len(files) : files[x].sha256 = files[y].sha256

\* C8 as stated: for sets of any size (here: any non-empty set) in which
\* every entry carries the same sha256, the call returns exactly one group
\* holding every entry.
C8_Original ==
  (pc = "done" /\ AllSameSha256 /\ Len(files) >= 1) =>
    /\ Len(groups) = 1
    /\ Members(1) = 1..Len(files)

\* C8 amended: for sets of two or more entries that all carry the same
\* sha256, the call returns exactly one group, keyed by that sha256, holding
\* every entry once; for fewer than two entries it returns no group.
C8_SameSha256OneGroup ==
  (pc = "done" /\ AllSameSha256) =>
    IF Len(files) >= 2
      THEN /\ Len(groups) = 1
           /\ Members(1) = 1..Len(files)
           /\ Len(groups[1].files) = Len(files)
           /\ groups[1].hash = files[1].sha256
      ELSE groups = <<>>

C8_Witness ==
  /\ pc = "done"
  /\ AllSameSha256
  /\ Len(files) >= 3
  /\ Len(groups) = 1

\* C9: nothing but a decode failure is ever swallowed: a Cancelled outcome
\* or a source-access failure always leaves the call as its rejection.
C9_OnlyDecodeFailureSwallowed ==
  \A m \in 1..Len(caught) : caught[m].error = DecodeFailure

\* The entries that can be decoded, and the entries that were hashed.
DecodableEntries == { x \in 1..Len(files) : Decodable(files[x].content) }

HashedEntries == { hashedFiles[a].entry : a \in 1..Len(hashedFiles) }

NoFetchFailed == \A m \in 1..Len(caught) : caught[m].error = DecodeFailure

\* C10: a failing perceptual hash never fails the call; the entry is in no
\* returned group, and (no fetch having failed) all other entries are hashed
\* and clustered: any two of them within the threshold share a group.
C10_DecodeFailureIsSkipped ==
  /\ outcome # DecodeFailure
  /\ (pc = "done") =>
       /\ \A x \in 1..Len(files) : x \notin DecodableEntries => x \notin Grouped
       /\ NoFetchFailed =>
            /\ HashedEntries = DecodableEntries
            /\ \A x, y \in DecodableEntries :
                 (x # y /\ hammingDistance(computePerceptualHash(files[x].content),
                                           computePerceptualHash(files[y].content))
                             <= threshold)
                   => SameGroup(x, y)

\* A call that swallowed a decode failure and still returned a group.
C10_Witness ==
  /\ pc = "done"
  /\ \E m \in 1..Len(caught) : caught[m].error = DecodeFailure
  /\ Len(groups) >= 1

----------------------------------------------------------------------------
(* Properties of discovery and collection                                  *)

\* The observer calls of the call in progress: onProgress of a grouper or
\* of discoverFiles, onFile of collectFileEntries.
ObserverCalls ==
  CASE op = "discoverFiles" -> Len(dprogress)
    [] op = "collectFileEntries" -> Len(onFileLog)
    [] OTHER -> Len(progress)

\* C5: a call made with the signal already aborted rejects with AbortError
\* and never calls its observer, whatever its input.
C5_PreCancelledRejectsSilently ==
  abortedAtCall =>
    /\ ObserverCalls = 0
    /\ outcome \in {"running", AbortError}

\* The normalized directory paths the listing has reported so far.
EnteredPaths ==
  { normalizeDiskPath(Listing[j].path) :
      j \in { n \in 1..pos : Listing[n].kind = "enter" } }

\* The nodes of a tree that carry path p.
NodesAt(ns, p) == { n \in 1..Len(ns) : ns[n].path = p }

\* C6: in a yandex discovery every reported directory path has exactly one
\* node, no snapshot holds two nodes for one path, and the directory count
\* is the number of distinct paths reported.
C6_DirectoryCountedOnce ==
  (op = "discoverFiles" /\ source.type = "yandex") =>
    /\ \A p \in EnteredPaths : Cardinality(NodesAt(nodes, p)) = 1
    /\ \A e \in 1..Len(dprogress) :
         \A t \in 1..Len(dprogress[e].directoryTree) :
           LET ns == dprogress[e].directoryTree[t].tree.nodes IN
             \A n \in 1..Len(ns) : Cardinality(NodesAt(ns, ns[n].path)) = 1
    /\ dirs = Cardinality(EnteredPaths)
    /\ result.type = "yandex" => result.totalDirectories = Cardinality(EnteredPaths)

\* The file paths the listing has reported so far.
ReportedFiles ==
  { Listing[j].path.segs :
      j \in { n \in 1..pos : Listing[n].kind = "file" } }

\* C7: in a yandex discovery every reported file path is accounted for once
\* in the file count, in its directory node's fileCount and in
\* cachedEntries.
C7_FileCountedOnce ==
  (op = "discoverFiles" /\ source.type = "yandex") =>
    /\ filesFound = Cardinality(ReportedFiles)
    /\ result.type = "yandex" => result.totalFiles = Cardinality(ReportedFiles)
    /\ Len(cachedEntries) = Cardinality(ReportedFiles)
    /\ \A a, b \in 1..Len(cachedEntries) :
         cachedEntries[a].path = cachedEntries[b].path => a = b
    /\ \A n \in 1..Len(nodes) :
         nodes[n].fileCount =
           Cardinality({ p \in ReportedFiles : Front(p) = nodes[n].path })

\* ---------------------------------------------------------------------------
\* Content fetches of the groupers
\* ---------------------------------------------------------------------------

\* The entries whose getFile has been invoked so far.
Fetched == {fetchLog[x] : x \in 1..Len(fetchLog)}

\* Entry e shares its metadata hash with another entry of the input.
HasMetadataTwin(e) ==
  \E y \in 1..Len(files) :
    y # e /\ MetadataHash(files[y], hashKey) = MetadataHash(files[e], hashKey)

\* C11: on the metadata fast path of findExactDuplicates nothing is fetched
\* while the entries are grouped, and getFile is only ever invoked for an
\* entry whose metadata hash is carried by another entry as well; an entry
\* with a unique metadata hash is never fetched.
C11_FastPathFetchesOnlyDuplicates ==
  hashKey # "" =>
    /\ \A e \in Fetched : HasMetadataTwin(e)
    /\ pc \in {"exact", "md_group"} => fetchLog = <<>>

\* A finished fast-path call that fetched the members of a group and left an
\* entry with a unique metadata hash alone.
C11_Witness ==
  /\ pc = "done" /\ outcome = "ok" /\ hashKey # "" /\ duplicateEntries # <<>>
  /\ Fetched # {}
  /\ \E e \in 1..Len(files) : ~HasMetadataTwin(e) /\ e \notin Fetched

\* C12: on the md5 path of findSimilarDuplicates getFile is invoked for one
\* entry per distinct md5 value: no two fetched entries carry the same md5.
C12_OneFetchPerMd5Group ==
  hasMetadata =>
    \A x, y \in 1..Len(fetchLog) :
      x # y => files[fetchLog[x]].md5 # files[fetchLog[y]].md5

\* C13: once the signal is aborted, findExactDuplicates and
\* findSimilarDuplicates start no further content fetch: no step taken with
\* the signal aborted invokes getFile.
C13_NoFetchAfterCancel == [][aborted => fetchLog' = fetchLog]_vars

\* ---------------------------------------------------------------------------
\* collectFileEntries against the discovery it is handed
\* ---------------------------------------------------------------------------

\* The positions of the collected entries that lie directly in directory dir.
CollectedIn(dir) == {x \in 1..Len(results) : Front(results[x].path) = dir}

\* C14: a collectFileEntries call that completes returns as many entries as
\* the discovery counted (discovery.totalFiles), and directory by directory
\* the collected paths are the files the discovery counted there (the
\* fileCount of the directory's tree node), for the handle, file-list and
\* remote source.
C14_CollectedMatchesDiscovery ==
  (op = "collectFileEntries" /\ pc = "done") =>
    /\ Len(results) = result.totalFiles
    /\ \A n \in 1..Len(nodes) :
         nodes[n].fileCount = Cardinality(CollectedIn(nodes[n].path))

\* A completed collection of two or more entries, one of them in a
\* subdirectory.
C14_Witness ==
  /\ op = "collectFileEntries" /\ pc = "done"
  /\ Len(results) >= 2
  /\ \E n \in 1..Len(nodes) :
       Len(nodes[n].path) >= 1 /\ nodes[n].fileCount >= 1

\* The image files below directory dir from its entry j + 1 on, depth
\* first in enumeration order.
RECURSIVE DepthFirstFiles(_, _)
DepthFirstFiles(dir, j) ==
  IF j = Len(source.tree[dir]) THEN <<>>
  ELSE LET e == source.tree[dir][j + 1]
           here == IF e.kind = "directory"
                     THEN DepthFirstFiles(dir \o <<e.name>>, 0)
                   ELSE IF isImageFile(e.name) THEN <<dir \o <<e.name>>>>
                   ELSE <<>>
       IN here \o DepthFirstFiles(dir, j + 1)

\* The relative paths of the images of a flat file list, in list order.
RECURSIVE ListedImages(_)
ListedImages(fs) ==
  IF fs = <<>> THEN <<>>
  ELSE (IF isImageFile(Head(fs).name) THEN <<RelativePath(Head(fs))>> ELSE <<>>)
       \o ListedImages(Tail(fs))

\* The order the source prescribes for the collected entries.
TraversalOrder ==
  IF source.type = "handle" THEN DepthFirstFiles(<<>>, 0)
  ELSE IF source.type = "fileList" THEN ListedImages(source.files)
  ELSE [x \in 1..Len(cachedEntries) |-> cachedEntries[x].path]

\* C15: collectFileEntries calls the entry observer once per returned entry
\* and in the order of the returned sequence: while it runs the observer's
\* calls are a prefix of what it returns, on completion they are the
\* returned sequence, and that sequence is in depth-first enumeration order
\* (handle), list order (file list) or discovery order (remote cache).
C15_ObserverFollowsReturnedOrder ==
  (op = "collectFileEntries") =>
    /\ source.type \in {"handle", "fileList"} => onFileLog = results
    /\ source.type = "yandex" =>
         /\ Len(onFileLog) <= Len(cachedEntries)
         /\ onFileLog = SubSeq(cachedEntries, 1, Len(onFileLog))
    /\ pc = "done" =>
         /\ onFileLog = results
         /\ [x \in 1..Len(results) |-> results[x].path] = TraversalOrder

\* A completed collection from a directory handle that returned a file of a
\* subdirectory before a file of the directory above it.
C15_Witness ==
  /\ op = "collectFileEntries" /\ pc = "done" /\ source.type = "handle"
  /\ \E x, y \in 1..Len(onFileLog) :
       x < y /\ Len(onFileLog[x].path) > Len(onFileLog[y].path)

\* ---------------------------------------------------------------------------
\* Tree snapshots handed to the discovery observer
\* ---------------------------------------------------------------------------

\* The discovery events that carry a directoryTree.
TreeEvents == {x \in 1..Len(dprogress) : dprogress[x].directoryTree # <<>>}

\* What the observer finds now in the tree it was handed with event x: the
\* clone it received, or the walker's own nodes when it received those.
ObservedTree(x) ==
  LET delivered == dprogress[x].directoryTree[1]
  IN IF delivered.cloned THEN delivered.tree
     ELSE treeSnapshot(rootNodes, nodes)

\* C16: no later step of the walker changes a tree that was handed to the
\* discovery observer: whatever has been delivered still reads as it did
\* when it was delivered (handle, file list and remote source).
C16_DeliveredTreesNeverChange ==
  \A x \in TreeEvents : ObservedTree(x) = dprogress[x].directoryTree[1].tree

\* The walker has moved on since a tree was delivered: the delivered tree
\* differs from the walker's present nodes.
C16_Witness ==
  \E x \in TreeEvents :
    dprogress[x].directoryTree[1].tree # treeSnapshot(rootNodes, nodes)

\* The tree delivered with event x.
DeliveredTree(x) == dprogress[x].directoryTree[1].tree

\* In tree t every completed node has only completed children (and so only
\* completed descendants).
CompletedDownwards(t) ==
  \A n \in 1..Len(t.nodes) :
    t.nodes[n].completed =>
      \A c \in 1..Len(t.nodes[n].children) :
        t.nodes[t.nodes[n].children[c]].completed

MaxCalls == 4
MaxSessionEntries == 2

\* getFileFromEntry(files[e]): entry.file is returned when set, else
\* entry.getFile() is invoked and awaited.  k counts the calls, i is the
\* entry of the call.
GetFileCall ==
  /\ pc = "gf_idle"
  /\ k < MaxCalls
  /\ \E e \in 1..Len(files) :
       /\ i' = e
       /\ IF NeedsFetch(e)
            THEN /\ fetchLog' = Append(fetchLog, e)
                 /\ pc' = "gf_fetch"
                 /\ outcome' = "running"
            ELSE /\ outcome' = "ok"
                 /\ UNCHANGED <<fetchLog, pc>>
  /\ k' = k + 1
  /\ UNCHANGED <<abortedAtCall, discoveryVars, componentVars, hashLog>>
  /\ UNCHANGED <<files, threshold, aborted, hashMap, duplicateEntries,
                 downloadedCount, hashedFiles, parent, groups, progress,
                 cachedFile, caught>>

\* entry.getFile() resolves: entry.file = file; return file
GetFileOk ==
  /\ pc = "gf_fetch"
  /\ cachedFile' = cachedFile \cup {i}
  /\ outcome' = "ok"
  /\ pc' = "gf_idle"
  /\ UNCHANGED <<abortedAtCall, discoveryVars, componentVars, hashLog>>
  /\ UNCHANGED <<files, threshold, aborted, i, k, hashMap, duplicateEntries,
                 downloadedCount, hashedFiles, parent, groups, progress,
                 fetchLog, caught>>

\* A rejection that marks the entry as holding a file.
GetFileFailKeepsEntry ==
  /\ pc = "gf_fetch"
  /\ outcome' = SourceAccessFailure
  /\ cachedFile' = cachedFile \cup {i}
  /\ pc' = "gf_idle"
  /\ UNCHANGED <<abortedAtCall, discoveryVars, componentVars, hashLog>>
  /\ UNCHANGED <<files, threshold, aborted, i, k, hashMap, duplicateEntries,
                 downloadedCount, hashedFiles, parent, groups, progress,
                 fetchLog, caught>>

\* entry.getFile() rejects: the await throws and nothing is assigned.
GetFileFail ==
  /\ pc = "gf_fetch"
  /\ outcome' = SourceAccessFailure
  /\ pc' = "gf_idle"
  /\ UNCHANGED <<abortedAtCall, discoveryVars, componentVars, hashLog>>
  /\ UNCHANGED <<files, threshold, aborted, i, k, hashMap, duplicateEntries,
                 downloadedCount, hashedFiles, parent, groups, progress,
                 cachedFile, fetchLog, caught>>

InitFetch ==
  /\ files \in UNION { LocalLists(n, {"c1"})
                         \cup RemoteLists(n, {"c1"}, {[p \in 1..n |-> "md5"]}) :
                       n \in 1..MaxSessionEntries }
  /\ threshold = 0
  /\ aborted = FALSE
  /\ abortedAtCall = FALSE
  /\ pc = "gf_idle"
  /\ outcome = "running"
  /\ i = 0
  /\ k = 0
  /\ hashMap = <<>>
  /\ duplicateEntries = <<>>
  /\ downloadedCount = 0
  /\ hashedFiles = <<>>
  /\ parent = <<>>
  /\ groups = <<>>
  /\ progress = <<>>
  /\ cachedFile = LocalEntries(files)
  /\ fetchLog = <<>>
  /\ caught = <<>>
  /\ hashLog = <<>>
  /\ DiscoveryIdle
  /\ ComponentsIdle

NextFetch == GetFileCall \/ GetFileOk \/ GetFileFail

SpecFetch == InitFetch /\ [][NextFetch]_vars

\* The claim as stated: across all getFileFromEntry calls on an entry,
\* entry.getFile is invoked at most once.
C18_Original ==
  \A x, y \in 1..Len(fetchLog) : x # y => fetchLog[x] # fetchLog[y]

\* C18: getFile is invoked only for an entry that holds no file, and a file
\* once held is kept: after a getFileFromEntry call on an entry has resolved
\* no later call invokes that entry's getFile, and an entry created with file
\* set never invokes it.  (A call whose getFile rejected stores nothing, and
\* the next call invokes getFile again.)
C18_NoFetchOnceCached ==
  [][/\ cachedFile \subseteq cachedFile'
     /\ fetchLog' # fetchLog =>
          /\ fetchLog' = Append(fetchLog, i')
          /\ i' \notin cachedFile]_vars

\* A second call on an entry was answered from entry.file: two calls have
\* been made, both resolved, and getFile was invoked once.
C18_Witness ==
  /\ pc = "gf_idle" /\ k = 2 /\ outcome = "ok"
  /\ Len(files) = 1 /\ Len(fetchLog) = 1 /\ cachedFile = {1}

\* ---------------------------------------------------------------------------
\* HomePage.handleDirectorySelected: discoverFiles, collectFileEntries, then
\* one grouper on the collected entries
\* ---------------------------------------------------------------------------

\* The collected FileEntry as the groupers read it, with the bytes that its
\* file or getFile yields.
ScannedFile(e) ==
  LET name == Last(e.path)
      content == CASE name = "a.jpg" -> "c1" [] name = "b.PNG" -> "c2"
                   [] name = "c.webp" -> "c1" [] name = "README" -> "bad"
                   [] OTHER -> "c3"
  IN [path |-> e.path, content |-> content, local |-> e.local,
      md5 |-> e.md5, sha256 |-> e.sha256]

\* if (discovery.totalFiles === 0) return; else collectFileEntries(discovery)
RunCollect ==
  /\ result.type # "none"
  /\ result.totalFiles # 0
  /\ \/ CollectFromHandle
     \/ CollectFromFileList
     \/ CollectFromYandex

\* collectFileEntries resolved: setAppState('processing'), then
\* searchMode === 'exact' ?
\* findExactDuplicates(files, setProgress, signal) :
\* findSimilarDuplicates(files, threshold, setProgress, signal)
RunGroup ==
  /\ pc = "done"
  /\ op = "collectFileEntries"
  /\ outcome = "ok"
  /\ files' = [x \in 1..Len(results) |-> ScannedFile(results[x])]
  /\ cachedFile' = LocalEntries(files')
  /\ \E searchMode \in {"exact", "similar"} :
       IF searchMode = "exact"
         THEN /\ op' = "findExactDuplicates"
              /\ pc' = "exact"
              /\ UNCHANGED threshold
         ELSE /\ op' = "findSimilarDuplicates"
              /\ pc' = "similar"
              /\ threshold' \in Thresholds
  /\ outcome' = "running"
  /\ \E cancel \in BOOLEAN : aborted' = (aborted \/ cancel)
  /\ abortedAtCall' = aborted'
  /\ UNCHANGED <<i, k, hashMap, duplicateEntries, downloadedCount,
                 hashedFiles, parent, groups, progress, fetchLog, caught,
                 hashLog>>
  /\ appState' = "processing"
  /\ UNCHANGED <<source, dirs, filesFound, nodes, rootNodes, cachedEntries,
                 dprogress, stack, pos, result, results, onFileLog>>
  /\ UNCHANGED <<trackerVars, hammingVars, pickerVars, error, pageResults>>

\* setError('Изображения не найдены в выбранной директории')
NoImagesFound == "NoImagesFound"

\* The error the idle page shows when a source is picked: none, or the one
\* an earlier run left.
LeftoverErrors == {"", NoImagesFound, SourceAccessFailure}

\* The page before a source is picked.
InitRun ==
  /\ GroupersIdle
  /\ DiscoveryIdle
  /\ aborted = FALSE
  /\ abortedAtCall = FALSE
  /\ pc = "page_idle"
  /\ outcome = "running"
  /\ trackSpeed = FALSE
  /\ bytesDownloaded = 0
  /\ elapsed = 0
  /\ estimates = <<>>
  /\ hashPair = <<>>
  /\ distance = <<>>
  /\ appState = "idle"
  /\ error \in LeftoverErrors
  /\ pageResults = <<>>
  /\ selected = {}
  /\ expanded = {}
  /\ scanPaths = <<>>

\* A handleDirectorySelected that leaves the error as it is.
RunStartKeepsError ==
  /\ pc = "page_idle"
  /\ appState = "idle"
  /\ appState' = "scanning"
  /\ pageResults' = <<>>
  /\ aborted' = FALSE
  /\ abortedAtCall' = FALSE
  /\ op' = "discoverFiles"
  /\ source' \in Sources
  /\ pc' = "discover"
  /\ UNCHANGED <<outcome, grouperState, trackerVars, hammingVars, pickerVars, error>>
  /\ UNCHANGED <<dirs, filesFound, nodes, rootNodes, cachedEntries,
                 dprogress, stack, pos, result, results, onFileLog>>

\* handleDirectorySelected(source) up to the call of discoverFiles:
\* setAppState('scanning'), setError(null), setResults([]) and a new
\* AbortController.
RunStart ==
  /\ pc = "page_idle"
  /\ appState = "idle"
  /\ appState' = "scanning"
  /\ error' = ""
  /\ pageResults' = <<>>
  /\ aborted' = FALSE
  /\ abortedAtCall' = FALSE
  /\ op' = "discoverFiles"
  /\ source' \in Sources
  /\ pc' = "discover"
  /\ UNCHANGED <<outcome, grouperState, trackerVars, hammingVars, pickerVars>>
  /\ UNCHANGED <<dirs, filesFound, nodes, rootNodes, cachedEntries,
                 dprogress, stack, pos, result, results, onFileLog>>

\* if (discovery.totalFiles === 0) { setError(...); setAppState('idle');
\* return }
RunNoImages ==
  /\ pc = "done"
  /\ op = "discoverFiles"
  /\ result.totalFiles = 0
  /\ error' = NoImagesFound
  /\ appState' = "idle"
  /\ pc' = "page_end"
  /\ UNCHANGED <<aborted, abortedAtCall, outcome, grouperState, discoveryVars,
                 trackerVars, hammingVars, pickerVars, pageResults>>

\* The grouper resolved: setResults(groups); setAppState('results')
RunResults ==
  /\ pc = "done"
  /\ op \in {"findExactDuplicates", "findSimilarDuplicates"}
  /\ pageResults' = groups
  /\ appState' = "results"
  /\ pc' = "page_end"
  /\ UNCHANGED <<aborted, abortedAtCall, outcome, grouperState, discoveryVars,
                 trackerVars, hammingVars, pickerVars, error>>

\* catch (err): an AbortError returns to the idle page; any other
\* rejection is shown as the error (err.message).
RunCatch ==
  /\ pc = "failed"
  /\ error' = IF outcome = AbortError THEN error ELSE outcome
  /\ appState' = "idle"
  /\ pc' = "page_end"
  /\ UNCHANGED <<aborted, abortedAtCall, outcome, grouperState, discoveryVars,
                 trackerVars, hammingVars, pickerVars, pageResults>>

\* handleReset, the results page's button: back to the idle page.
handleReset ==
  /\ pc = "page_end"
  /\ appState = "results"
  /\ appState' = "idle"
  /\ pageResults' = <<>>
  /\ error' = ""
  /\ UNCHANGED <<aborted, abortedAtCall, pc, outcome, grouperState,
                 discoveryVars, trackerVars, hammingVars, pickerVars>>

NextRun ==
  \/ RunStart
  \/ DiscoverFromHandle
  \/ HdAborted \/ HdFile \/ HdDirectory \/ HdComplete \/ HdListFail
  \/ DiscoverFromFileList \/ FlLoop \/ FlReturn
  \/ DiscoverFromYandex
  \/ YxPage \/ YxFetchOk \/ YxFetchFail
  \/ YxOnDirectoryEnter \/ YxOnFile \/ YxOnDirectoryComplete \/ YxReturn
  \/ RunCollect
  \/ ScAborted \/ ScFile \/ ScGetFileOk \/ ScGetFileFail \/ ScDirectory
  \/ ScComplete \/ ScListFail
  \/ ClLoop \/ ClReturn
  \/ CyLoop \/ CyReturn
  \/ RunGroup
  \/ NextGroupers
  \/ RunNoImages \/ RunResults \/ RunCatch \/ handleReset

SpecRun == InitRun /\ [][NextRun]_vars

\* The phase tags of the setProgress calls of the run so far: the call
\* before discoverFiles and one per discovery event, the call before
\* collectFileEntries and one per collected entry, then the grouper's
\* onProgress calls, which are setProgress itself.  The three calls are
\* awaited one after the other.
PagePhases ==
  (IF op = "none" THEN <<>> ELSE <<"discovering">>)
  \o [x \in 1..Len(dprogress) |-> "discovering"]
  \o (IF op = "discoverFiles" THEN <<>>
      ELSE <<"scanning">> \o [x \in 1..Len(onFileLog) |-> "scanning"])
  \o [x \in 1..Len(progress) |-> progress[x].phase]

PhaseRank(phase) ==
  CASE phase = "discovering" -> 1 [] phase = "scanning" -> 2
    [] phase = "hashing" -> 3 [] phase = "comparing" -> 4

\* C19: within one run of handleDirectorySelected the phase tags of the
\* successive progress updates never go backwards in the order discovering,
\* scanning, hashing, comparing.
C19_PhasesNeverGoBack ==
  \A x, y \in 1..Len(PagePhases) :
    x < y => PhaseRank(PagePhases[x]) <= PhaseRank(PagePhases[y])

\* A run that went through all four phases and ended with groups.
C19_Witness ==
  /\ op \in {"findExactDuplicates", "findSimilarDuplicates"}
  /\ pc = "done" /\ groups # <<>>
  /\ {PagePhases[x] : x \in 1..Len(PagePhases)}
       = {"discovering", "scanning", "hashing", "comparing"}

\* ---------------------------------------------------------------------------
\* Order of the groupers' progress events
\* ---------------------------------------------------------------------------

\* C20: within each phase the entries are reported through onProgress in
\* the order of the input sequence: of two events of one phase that name an
\* entry, the earlier names the entry that comes first in files (an entry's
\* path is its position).
C20_ProgressInInputOrder ==
  \A x, y \in 1..Len(progress) :
    (/\ x < y
     /\ progress[x].phase = progress[y].phase
     /\ progress[x].currentFile # 0
     /\ progress[y].currentFile # 0)
    => progress[x].currentFile <= progress[y].currentFile

\* ---------------------------------------------------------------------------
\* Number and shape of the progress events of findExactDuplicates
\* ---------------------------------------------------------------------------

\* n 'hashing' events, one per entry in input order, then one 'comparing'
\* event with currentFile '' and processedFiles = totalFiles = n.
OnePerEntryThenFinal ==
  LET n == Len(files) IN
    /\ Len(progress) = n + 1
    /\ \A x \in 1..n :
         /\ progress[x].phase = "hashing"
         /\ progress[x].currentFile = files[x].path
         /\ progress[x].totalFiles = n
    /\ progress[n + 1] = ProgressEvent("comparing", n, n, 0)

\* The claim as stated: every completed findExactDuplicates call on n
\* entries makes n + 1 onProgress calls of that shape.
C21_Original == (pc = "done") => OnePerEntryThenFinal

\* C21: a findExactDuplicates call on n entries that takes the fallback
\* path (no hash kind is carried by every entry) and completes calls
\* onProgress exactly n + 1 times: once per entry with phase 'hashing', then
\* once with phase 'comparing', currentFile '' and processedFiles =
\* totalFiles = n.  (On the metadata fast path the n 'hashing' events are
\* followed by one 'comparing' event per member of a duplicate group.)
C21_FallbackReportsEachEntryThenFinal ==
  (pc = "done" /\ hashKey = "") => OnePerEntryThenFinal

\* A completed fallback call on three or more entries that found a group.
C21_Witness ==
  /\ pc = "done" /\ hashKey = "" /\ Len(files) >= 3 /\ groups # <<>>
  /\ Len(progress) = Len(files) + 1

----------------------------------------------------------------------------
(* ProgressTracker                                                         *)

\* const MIN_FILES_FOR_ETA = 3
MIN_FILES_FOR_ETA == 3

\* performance.now() is a real number of milliseconds: the clock of the
\* model counts ticks of 1 / TicksPerMs ms.
TicksPerMs == 4

\* The largest reading of the clock, the largest byte count and the largest
\* totalFiles of a getEstimates call.
MaxTicks == TicksPerMs * MIN_FILES_FOR_ETA
MaxBytes == 2
MaxTotal == 5

\* Math.floor(num / den) for num >= 0, den > 0.
Truncate(num, den) == num \div den

\* Math.round(num / den) for num >= 0, den > 0: the nearest integer, a half
\* rounded up.
Round(num, den) == (2 * num + den) \div (2 * den)

\* Time passes between two calls on the tracker.
Tick ==
  /\ pc = "tracker"
  /\ elapsed < MaxTicks
  /\ elapsed' = elapsed + 1
  /\ UNCHANGED <<trackSpeed, bytesDownloaded, estimates>>
  /\ UNCHANGED <<grouperVars, abortedAtCall, discoveryVars, hammingVars, pickerVars,
                 pageVars>>

\* addBytes counting the bytes whether or not the speed is tracked.
AddBytesUntracked ==
  /\ pc = "tracker"
  /\ \E bytes \in 0..MaxBytes :
       /\ bytesDownloaded + bytes <= MaxBytes
       /\ bytesDownloaded' = bytesDownloaded + bytes
  /\ UNCHANGED <<trackSpeed, elapsed, estimates>>
  /\ UNCHANGED <<grouperVars, abortedAtCall, discoveryVars, hammingVars, pickerVars,
                 pageVars>>

\* addBytes(bytes): if (this.trackSpeed) this.bytesDownloaded += bytes
AddBytes ==
  /\ pc = "tracker"
  /\ \E bytes \in 0..MaxBytes :
       /\ bytesDownloaded + bytes <= MaxBytes
       /\ bytesDownloaded' = IF trackSpeed THEN bytesDownloaded + bytes
                                           ELSE bytesDownloaded
  /\ UNCHANGED <<trackSpeed, elapsed, estimates>>
  /\ UNCHANGED <<grouperVars, abortedAtCall, discoveryVars, hammingVars, pickerVars,
                 pageVars>>

\* getEstimates(processedFiles, totalFiles), called as the groupers call it,
\* before the entry at hand is processed; an absent field of the result is
\* <<>>.  estimates keeps the last call: its arguments, the clock and the
\* result.
GetEstimates ==
  /\ pc = "tracker"
  /\ \E totalFiles \in 1..MaxTotal : \E processedFiles \in 0..(totalFiles - 1) :
       LET remaining == totalFiles - processedFiles
           estimatedRemainingMs ==
             Round(elapsed * remaining, TicksPerMs * processedFiles)
           downloadSpeed ==
             IF elapsed = 0 THEN "Infinity"
             ELSE Round(bytesDownloaded * 1000 * TicksPerMs, elapsed)
           returned ==
             IF processedFiles < MIN_FILES_FOR_ETA
               THEN [estimatedRemainingMs |-> <<>>, downloadSpeed |-> <<>>]
               ELSE [estimatedRemainingMs |-> <<estimatedRemainingMs>>,
                     downloadSpeed |-> IF bytesDownloaded > 0
                                         THEN <<downloadSpeed>> ELSE <<>>]
       IN estimates' = <<[processedFiles |-> processedFiles,
                          totalFiles |-> totalFiles,
                          elapsed |-> elapsed,
                          returned |-> returned]>>
  /\ UNCHANGED <<trackSpeed, bytesDownloaded, elapsed>>
  /\ UNCHANGED <<grouperVars, abortedAtCall, discoveryVars, hammingVars, pickerVars,
                 pageVars>>

\* new ProgressTracker(trackSpeed)
InitTracker ==
  /\ GroupersIdle
  /\ DiscoveryIdle
  /\ aborted = FALSE
  /\ abortedAtCall = FALSE
  /\ pc = "tracker"
  /\ outcome = "running"
  /\ trackSpeed \in BOOLEAN
  /\ bytesDownloaded = 0
  /\ elapsed = 0
  /\ estimates = <<>>
  /\ hashPair = <<>>
  /\ distance = <<>>
  /\ appState = "idle"
  /\ error = ""
  /\ pageResults = <<>>
  /\ selected = {}
  /\ expanded = {}
  /\ scanPaths = <<>>

NextTracker == Tick \/ AddBytes \/ GetEstimates

SpecTracker == InitTracker /\ [][NextTracker]_vars

\* The last getEstimates call.
LastCall == estimates[1]

\* The call was made after a whole number r >= 1 of clock ticks per
\* processed item.
SteadyTicksPerItem(r) ==
  r >= 1 /\ LastCall.elapsed = r * LastCall.processedFiles

\* The claim as stated: no estimate below the floor; at or above it, for a
\* steady rate, a positive estimatedRemainingMs equal to the time per item
\* times the remaining count.
C22_Original ==
  estimates # <<>> =>
    IF LastCall.processedFiles < MIN_FILES_FOR_ETA
      THEN LastCall.returned.estimatedRemainingMs = <<>>
      ELSE \A r \in 1..MaxTicks :
             SteadyTicksPerItem(r) =>
               /\ LastCall.returned.estimatedRemainingMs # <<>>
               /\ LastCall.returned.estimatedRemainingMs[1] > 0
               /\ LastCall.returned.estimatedRemainingMs[1] * TicksPerMs
                    = r * (LastCall.totalFiles - LastCall.processedFiles)

\* C22: getEstimates returns no estimate at all below the floor of 3
\* processed files; at or above the floor it returns estimatedRemainingMs,
\* a whole number >= 0 that is the elapsed time per item times the remaining
\* count rounded to the nearest millisecond; for a steady rate of a whole
\* number m >= 1 of milliseconds per item it is exactly m times the
\* remaining count, and positive.
C22_EtaWithheldBelowFloorThenRounded ==
  estimates # <<>> =>
    IF LastCall.processedFiles < MIN_FILES_FOR_ETA
      THEN LastCall.returned
             = [estimatedRemainingMs |-> <<>>, downloadSpeed |-> <<>>]
      ELSE LET eta == LastCall.returned.estimatedRemainingMs
               remaining == LastCall.totalFiles - LastCall.processedFiles
               exactNum == LastCall.elapsed * remaining
               exactDen == TicksPerMs * LastCall.processedFiles
           IN /\ eta # <<>>
              /\ eta[1] >= 0
              /\ 2 * exactDen * eta[1] <= 2 * exactNum + exactDen
              /\ 2 * exactDen * eta[1] > 2 * exactNum - exactDen
              /\ \A m \in 1..MaxTicks :
                   SteadyTicksPerItem(m * TicksPerMs) =>
                     eta[1] = m * remaining /\ eta[1] > 0

\* An estimate was returned at the floor after one millisecond per item.
C22_Witness ==
  /\ estimates # <<>>
  /\ LastCall.processedFiles = MIN_FILES_FOR_ETA
  /\ SteadyTicksPerItem(TicksPerMs)
  /\ LastCall.returned.estimatedRemainingMs
       = <<LastCall.totalFiles - LastCall.processedFiles>>


\* C23: a tracker constructed with trackSpeed = false records no bytes and
\* no getEstimates call of it returns downloadSpeed; a tracker with
\* trackSpeed = true returns downloadSpeed only when a positive number of
\* bytes has been recorded.
C23_SpeedOnlyWhenTrackedAndBytesRecorded ==
  /\ ~trackSpeed => bytesDownloaded = 0
  /\ estimates # <<>> =>
       /\ ~trackSpeed => LastCall.returned.downloadSpeed = <<>>
       /\ LastCall.returned.downloadSpeed # <<>> => bytesDownloaded > 0

\* A tracking tracker has reported a download speed after some time and
\* some bytes.
C23_Witness ==
  /\ trackSpeed
  /\ estimates # <<>>
  /\ LastCall.elapsed > 0
  /\ LastCall.returned.downloadSpeed # <<>>
  /\ LastCall.returned.downloadSpeed[1] = Round(bytesDownloaded * 1000 * TicksPerMs, LastCall.elapsed)


----------------------------------------------------------------------------
(* hammingDistance on its own                                              *)

\* The longest digest of the pairs handed to hammingDistance.
MaxDigestLen == 2

\* Digests of up to MaxDigestLen digits over a few hex digits, and every
\* digest of one hex digit.
DigestAlphabet == {"0", "3", "a", "f"}

Digests ==
  UNION {[1..n -> DigestAlphabet] : n \in 0..MaxDigestLen}
    \cup {<<HexDigits[d]>> : d \in 1..16}

\* hammingDistance(hashPair[1], hashPair[2]): what the call threw or
\* returned.
HammingCall ==
  /\ pc = "hamming"
  /\ distance = <<>>
  /\ distance' =
       IF HammingThrows(hashPair[1], hashPair[2])
         THEN <<[threw |-> TRUE, value |-> <<>>]>>
         ELSE <<[threw |-> FALSE,
                 value |-> <<hammingDistance(hashPair[1], hashPair[2])>>]>>
  /\ UNCHANGED hashPair
  /\ UNCHANGED <<grouperVars, abortedAtCall, discoveryVars, trackerVars,
                 pageVars, pickerVars>>

InitHamming ==
  /\ GroupersIdle
  /\ DiscoveryIdle
  /\ aborted = FALSE
  /\ abortedAtCall = FALSE
  /\ pc = "hamming"
  /\ outcome = "running"
  /\ trackSpeed = FALSE
  /\ bytesDownloaded = 0
  /\ elapsed = 0
  /\ estimates = <<>>
  /\ hashPair \in Digests \X Digests
  /\ distance = <<>>
  /\ appState = "idle"
  /\ error = ""
  /\ pageResults = <<>>
  /\ selected = {}
  /\ expanded = {}
  /\ scanPaths = <<>>

NextHamming == HammingCall

SpecHamming == InitHamming /\ [][NextHamming]_vars

\* The four bits of a hex digit, written out.
BitsOfDigit(ch) ==
  CASE ch = "0" -> <<0, 0, 0, 0>> [] ch = "1" -> <<0, 0, 0, 1>>
    [] ch = "2" -> <<0, 0, 1, 0>> [] ch = "3" -> <<0, 0, 1, 1>>
    [] ch = "4" -> <<0, 1, 0, 0>> [] ch = "5" -> <<0, 1, 0, 1>>
    [] ch = "6" -> <<0, 1, 1, 0>> [] ch = "7" -> <<0, 1, 1, 1>>
    [] ch = "8" -> <<1, 0, 0, 0>> [] ch = "9" -> <<1, 0, 0, 1>>
    [] ch = "a" -> <<1, 0, 1, 0>> [] ch = "b" -> <<1, 0, 1, 1>>
    [] ch = "c" -> <<1, 1, 0, 0>> [] ch = "d" -> <<1, 1, 0, 1>>
    [] ch = "e" -> <<1, 1, 1, 0>> [] ch = "f" -> <<1, 1, 1, 1>>

\* The number of bit positions at which two digests of one length differ.
DifferingBits(a, b) ==
  Cardinality({at \in (1..Len(a)) \X (1..4) :
                 BitsOfDigit(a[at[1]])[at[2]] # BitsOfDigit(b[at[1]])[at[2]]})

\* C24: hammingDistance throws for every pair of digests of different
\* length; for digests of one length it returns the number of differing
\* bits, which is what the call with the arguments exchanged returns, and 0
\* when the two digests are equal.
C24_HammingDistance ==
  distance # <<>> =>
    LET a == hashPair[1]
        b == hashPair[2]
    IN IF Len(a) # Len(b)
         THEN distance[1].threw /\ HammingThrows(b, a)
         ELSE /\ ~distance[1].threw
              /\ distance[1].value = <<DifferingBits(a, b)>>
              /\ ~HammingThrows(b, a)
              /\ distance[1].value = <<hammingDistance(b, a)>>
              /\ a = b => distance[1].value = <<0>>

\* Two different digests of two digits were compared and differ in six
\* bits.
C24_Witness ==
  /\ distance # <<>>
  /\ Len(hashPair[1]) = 2
  /\ hashPair[1] # hashPair[2]
  /\ distance[1] = [threw |-> FALSE, value |-> <<6>>]


----------------------------------------------------------------------------
(* The groups as a function of the entries                                 *)

\* The members of a set of numbers in ascending order.
RECURSIVE Ascending(_)
Ascending(S) ==
  IF S = {} THEN <<>>
  ELSE LET least == CHOOSE x \in S : \A y \in S : x <= y
       IN <<least>> \o Ascending(S \ {least})

\* The classes of 1..n under the equivalence Same that have at least
\* minSize members: each class in ascending order, the classes ordered by
\* their first member.
ClassesInOrder(n, Same(_, _), minSize) ==
  LET class(x) == {y \in 1..n : y = x \/ Same(x, y)}
      firsts == {x \in 1..n : /\ \A y \in 1..(x - 1) : ~Same(y, x)
                              /\ Cardinality(class(x)) >= minSize}
      order == Ascending(firsts)
  IN [g \in 1..Len(order) |-> Ascending(class(order[g]))]

\* The groups of the entries fs whose key is shared, with that key.
GroupsByKey(fs, key(_)) ==
  LET same(x, y) == key(x) = key(y)
      classes == ClassesInOrder(Len(fs), same, 2)
  IN [g \in 1..Len(classes) |->
        [hash |-> key(classes[g][1]),
         files |-> [m \in 1..Len(classes[g]) |->
                      HashedFile(classes[g][m], key(classes[g][m]))]]]

\* What findExactDuplicates returns for fs: the entries grouped by their
\* sha256, or by their md5 when some entry has no sha256, or by the SHA-256
\* of their bytes when neither is on every entry.
ExactGroupsOf(fs) ==
  LET sha(x) == fs[x].sha256
      md5(x) == fs[x].md5
      bytes(x) == computeCryptoHash(fs[x].content)
  IN IF fs = <<>> THEN <<>>
     ELSE IF \A x \in 1..Len(fs) : sha(x) # "" THEN GroupsByKey(fs, sha)
     ELSE IF \A x \in 1..Len(fs) : md5(x) # "" THEN GroupsByKey(fs, md5)
     ELSE GroupsByKey(fs, bytes)

\* The entries whose getFile rejected during the call.
FailedFetches ==
  {caught[c].entry : c \in {d \in 1..Len(caught) :
                              caught[d].error # DecodeFailure}}

RECURSIVE Flatten(_)
Flatten(ss) == IF ss = <<>> THEN <<>> ELSE Head(ss) \o Flatten(Tail(ss))

\* The entries findSimilarDuplicates has a digest for, in the order it takes
\* them, when the fetches of the entries in failed are the ones that
\* reject: entry by entry without md5 on every entry; else md5 group by md5
\* group, under the digest of the group's first entry, up to the group's
\* first rejected fetch.
HashedOf(fs, failed) ==
  LET usable(x) == x \notin failed /\ Decodable(fs[x].content)
      sameMd5(x, y) == fs[x].md5 = fs[y].md5
      md5Classes == ClassesInOrder(Len(fs), sameMd5, 1)
      taken(c) == IF ~usable(c[1]) THEN 0
                  ELSE Cardinality({m \in 1..Len(c) :
                                      \A j \in 1..m : c[j] \notin failed})
      ofClass(c) ==
        [m \in 1..taken(c) |->
           HashedFile(c[m], computePerceptualHash(fs[c[1]].content))]
      each == Ascending({x \in 1..Len(fs) : usable(x)})
  IN IF fs # <<>> /\ \A x \in 1..Len(fs) : fs[x].md5 # ""
       THEN Flatten([g \in 1..Len(md5Classes) |-> ofClass(md5Classes[g])])
       ELSE [m \in 1..Len(each) |->
               HashedFile(each[m], computePerceptualHash(fs[each[m]].content))]

\* The members of hashed that a chain of pairs at distance <= t joins to
\* the members in S.
RECURSIVE ChainedTo(_, _, _)
ChainedTo(hashed, t, S) ==
  LET more == S \cup {y \in 1..Len(hashed) :
                        \E x \in S :
                          hammingDistance(hashed[x].hash, hashed[y].hash) <= t}
  IN IF more = S THEN S ELSE ChainedTo(hashed, t, more)

\* What findSimilarDuplicates returns for the hashed entries: the classes
\* of 2+ members chained at distance <= t, under the digest of the first
\* member.
SimilarGroupsOf(hashed, t) ==
  LET chained(x, y) == y \in ChainedTo(hashed, t, {x})
      classes == ClassesInOrder(Len(hashed), chained, 2)
  IN [g \in 1..Len(classes) |->
        [hash |-> hashed[classes[g][1]].hash,
         files |-> [m \in 1..Len(classes[g]) |-> hashed[classes[g][m]]]]]

\* The call that returned was findSimilarDuplicates: its pair loop starts
\* with j = 1, and findExactDuplicates leaves its inner index at 0.
ReturnedFromSimilar == pc = "done" /\ k >= 1

\* C25: the groups a call returns are a function of its arguments and of
\* the hash values alone: findExactDuplicates returns the groups of equal
\* key of the entry list, findSimilarDuplicates the classes of the hashed
\* entries chained within the threshold, in either case ordered by first
\* member, members in processing order, under the first member's hash,
\* whatever yields and cancellation requests happened on the way.
C25_GroupsAreAFunctionOfTheInput ==
  pc = "done" =>
    groups = IF ReturnedFromSimilar
               THEN SimilarGroupsOf(HashedOf(files, FailedFetches), threshold)
               ELSE ExactGroupsOf(files)

\* findSimilarDuplicates returned a group of three entries chained through
\* the middle one, after it yielded.
C25_Witness ==
  /\ ReturnedFromSimilar
  /\ Len(groups) = 1
  /\ Len(groups[1].files) = 3
  /\ hammingDistance(groups[1].files[1].hash, groups[1].files[2].hash) > threshold
  /\ Len(progress) > Len(files)


\* Whether a file name of the trees ends in an image extension, whatever
\* its case.
HasImageExtension(name) == name \in {"a.jpg", "b.PNG", "c.webp"}

\* The files with an image extension behind a handle: directory and
\* position in its listing.
ImageFilesBehind(tree) ==
  UNION { { <<dir, j>> : j \in {x \in 1..Len(tree[dir]) :
                                  /\ tree[dir][x].kind = "file"
                                  /\ HasImageExtension(tree[dir][x].name)} } :
          dir \in DOMAIN tree }

\* C26: while discoverFiles runs on a local handle no getFile of a file
\* handle is pending or has resolved (nothing is read, no entry is
\* produced), and the counts it returns are the number of directories
\* behind the handle, the root included, and the number of files whose
\* name has an image extension.
C26_DiscoveryReadsNoContent ==
  (op = "discoverFiles" /\ source.type = "handle") =>
    /\ pc # "sc_getfile"
    /\ results = <<>>
    /\ onFileLog = <<>>
    /\ pc = "done" =>
         /\ result.totalDirectories = Cardinality(DOMAIN source.tree)
         /\ result.totalFiles = Cardinality(ImageFilesBehind(source.tree))

\* A discovery returned after walking four directories with two images and
\* no file read.
C26_Witness ==
  /\ op = "discoverFiles" /\ source.type = "handle" /\ pc = "done"
  /\ result.totalDirectories = 4
  /\ result.totalFiles = 2
  /\ results = <<>>


\* The observer calls made for directory dir of the handle, by position.
CallsFor(dir) ==
  {x \in 1..Len(dprogress) : dprogress[x].currentDirectory = WalkDirectory(dir)}

\* The first and the last of a non-empty set of positions.
FirstOf(S) == CHOOSE x \in S : \A y \in S : x <= y
LastOf(S) == CHOOSE x \in S : \A y \in S : y <= x

\* Whether the tree handed over with call x shows directory dir completed.
ShownCompleted(x, dir) ==
  LET ns == dprogress[x].directoryTree[1].tree.nodes
  IN \E n \in 1..Len(ns) : ns[n].path = dir /\ ns[n].completed

\* C27: a discovery on a local handle that returns has called the observer
\* exactly twice for every directory, first with the directory's node not
\* completed and then with it completed, and both calls for a directory lie
\* between the two calls for its parent.
C27_EnterAndCompletePerDirectoryNested ==
  (op = "discoverFiles" /\ source.type = "handle" /\ pc = "done") =>
    /\ Len(dprogress) = 2 * Cardinality(DOMAIN source.tree)
    /\ \A dir \in DOMAIN source.tree :
         /\ Cardinality(CallsFor(dir)) = 2
         /\ ~ShownCompleted(FirstOf(CallsFor(dir)), dir)
         /\ ShownCompleted(LastOf(CallsFor(dir)), dir)
         /\ dir # <<>> =>
              /\ FirstOf(CallsFor(Front(dir))) < FirstOf(CallsFor(dir))
              /\ LastOf(CallsFor(dir)) < LastOf(CallsFor(Front(dir)))

\* A discovery of four directories, one of them two levels down, returned
\* after eight observer calls.
C27_Witness ==
  /\ op = "discoverFiles" /\ source.type = "handle" /\ pc = "done"
  /\ \E dir \in DOMAIN source.tree : Len(dir) = 2
  /\ Len(dprogress) = 8


\* Two of the hashed entries have digests of different length.
DigestsOfDifferentLength ==
  \E x, y \in 1..Len(hashedFiles) :
    Len(hashedFiles[x].hash) # Len(hashedFiles[y].hash)

\* C28: a findSimilarDuplicates call that has hashed two entries to digests
\* of different length never returns and never has groups; unless its
\* cancellation was requested, it ends rejected with the length-mismatch
\* error of hammingDistance.
C28_LengthMismatchFailsLoudly ==
  DigestsOfDifferentLength =>
    /\ pc # "done"
    /\ groups = <<>>
    /\ pc = "failed" /\ ~aborted => outcome = HashLengthMismatch

\* A call of three entries was rejected with the length mismatch after a
\* pair of equal length had been compared.
C28_Witness ==
  /\ DigestsOfDifferentLength
  /\ pc = "failed"
  /\ outcome = HashLengthMismatch
  /\ Len(hashedFiles) = 3
  /\ k = 2


\* C29: a run of handleDirectorySelected that ended with AbortError, from
\* whichever of discoverFiles, collectFileEntries and the grouper, has left
\* the page idle with no error and no results; the page shows results only
\* after a run that resolved and shows no error while a run is under way;
\* a run that ended with any other rejection has left the page idle with
\* an error.
C29_CancelledRunLeavesIdlePageWithoutError ==
  /\ (pc = "page_end" /\ outcome = AbortError) =>
       appState = "idle" /\ error = "" /\ pageResults = <<>>
  /\ (pc = "page_end" /\ outcome \notin {AbortError, "ok"}) =>
       appState = "idle" /\ error = outcome /\ error # "" /\ pageResults = <<>>
  /\ appState = "results" => outcome = "ok" /\ error = ""
  /\ appState \in {"scanning", "processing"} => error = "" /\ pageResults = <<>>

\* A run cancelled while findSimilarDuplicates was fetching, after it had
\* hashed an entry, ended on the idle page.
C29_Witness ==
  /\ pc = "page_end"
  /\ outcome = AbortError
  /\ op = "findSimilarDuplicates"
  /\ hashedFiles # <<>>
  /\ appState = "idle" /\ error = "" /\ pageResults = <<>>


\* The positions of the call inside the metadata fast path and inside the
\* fallback.
FastPathPositions == {"md_group", "md_download", "md_fetch", "md_yield"}
FallbackPositions == {"fb_loop", "fb_fetch", "fb_yield"}

EverySha256 == \A x \in 1..Len(files) : files[x].sha256 # ""
EveryMd5 == \A x \in 1..Len(files) : files[x].md5 # ""

\* The list is not empty and one hash kind is present on every entry.
OneKindOnEveryEntry == files # <<>> /\ (EverySha256 \/ EveryMd5)

\* The metadata value the fast path must group entry x by.
PreferredMetadata(x) == IF EverySha256 THEN files[x].sha256 ELSE files[x].md5

\* C30: findExactDuplicates is in its metadata fast path exactly when the
\* entry list is non-empty and one hash kind is on every entry, and in its
\* fallback otherwise; the fast path buckets every entry by its sha256 when
\* every entry has one and else by its md5; the fallback buckets every
\* entry by the SHA-256 of its fetched bytes, and when it returns every
\* entry has been fetched and hashed.
C30_FastPathIffOneKindOnEveryEntry ==
  /\ pc \in FastPathPositions => OneKindOnEveryEntry
  /\ pc \in FallbackPositions => ~OneKindOnEveryEntry
  /\ pc \in FastPathPositions =>
       \A b \in 1..Len(hashMap) : \A m \in 1..Len(hashMap[b].files) :
         hashMap[b].hash = PreferredMetadata(hashMap[b].files[m])
  /\ pc \in FallbackPositions =>
       \A b \in 1..Len(hashMap) : \A m \in 1..Len(hashMap[b].files) :
         hashMap[b].hash
           = computeCryptoHash(files[hashMap[b].files[m].entry].content)
  /\ (pc = "done" /\ OneKindOnEveryEntry) =>
       /\ \A g \in 1..Len(groups) : \A x \in Members(g) :
            groups[g].hash = PreferredMetadata(x)
       /\ \A x \in 1..Len(files) : \E b \in 1..Len(hashMap) :
            \E m \in 1..Len(hashMap[b].files) : hashMap[b].files[m] = x
  /\ (pc = "done" /\ ~OneKindOnEveryEntry) =>
       /\ cachedFile = 1..Len(files)
       /\ \A x \in 1..Len(files) : \E b \in 1..Len(hashMap) :
            \E m \in 1..Len(hashMap[b].files) :
              hashMap[b].files[m] = HashedFile(x, computeCryptoHash(files[x].content))

\* The fallback returned groups for a list in which some entries carry only
\* md5 and the others only sha256.
C30_Witness ==
  /\ pc = "done"
  /\ groups # <<>>
  /\ \E x \in 1..Len(files) : files[x].sha256 # "" /\ files[x].md5 = ""
  /\ \E x \in 1..Len(files) : files[x].md5 # "" /\ files[x].sha256 = ""
  /\ cachedFile = 1..Len(files)


\* ---------------------------------------------------------------------------
\* The md5 groups of findSimilarDuplicates
\* ---------------------------------------------------------------------------

\* The first entry of files that carries the md5 of entry x.
FirstWithMd5Of(x) ==
  CHOOSE y \in 1..Len(files) :
    /\ files[y].md5 = files[x].md5
    /\ \A z \in 1..(y - 1) : files[z].md5 # files[x].md5

FirstInInput(g) == CHOOSE x \in Members(g) : \A y \in Members(g) : x <= y

\* The hash of every returned group is the perceptual hash of its member
\* that comes first in the input.
HashOfFirstInInput ==
  \A g \in 1..Len(groups) :
    groups[g].hash = computePerceptualHash(files[FirstInInput(g)].content)

\* The members of every returned group are listed in input order.
MembersInInputOrder ==
  \A g \in 1..Len(groups) : \A m, n \in 1..Len(groups[g].files) :
    m < n => groups[g].files[m].entry < groups[g].files[n].entry

\* The claim as stated: on both paths every returned group has the hash of
\* its first member in input order and lists its members in input order.
C32_Original ==
  (pc = "done") => HashOfFirstInInput /\ MembersInInputOrder

\* C32: every group findSimilarDuplicates returns has the perceptual hash
\* of its member that comes first in the input, on both paths; the fallback
\* lists the members in input order; the md5 path lists them md5 value by
\* md5 value, the values in the order of their first entries and the
\* entries of one value in input order.
C32_HashOfFirstMemberAndMemberOrder ==
  (pc = "done") =>
    /\ HashOfFirstInInput
    /\ ~hasMetadata => MembersInInputOrder
    /\ hasMetadata =>
         \A g \in 1..Len(groups) : \A m, n \in 1..Len(groups[g].files) :
           m < n =>
             LET x == groups[g].files[m].entry
                 y == groups[g].files[n].entry
             IN \/ FirstWithMd5Of(x) < FirstWithMd5Of(y)
                \/ FirstWithMd5Of(x) = FirstWithMd5Of(y) /\ x < y

\* The md5 path returned a group of three in which the third entry of the
\* input is listed before the second.
C32_Witness ==
  /\ pc = "done"
  /\ hasMetadata
  /\ Len(groups) = 1
  /\ Len(groups[1].files) = 3
  /\ groups[1].files[2].entry = 3
  /\ groups[1].files[3].entry = 2
  /\ groups[1].hash = computePerceptualHash(files[1].content)


----------------------------------------------------------------------------
(* YandexFolderPicker: the folder tree, toggleSelect, handleScan           *)

\* The folders of the Disk the picker shows, each by the names on the way
\* to it; a name is its sequence of characters.
PickerFolders ==
  { << <<"a">> >>,
    << <<"a">>, <<"c">> >>,
    << <<"a">>, <<"c">>, <<"d">> >>,
    << <<"a">>, <<"c", "d">> >>,
    << <<"a", "b">> >>,
    << <<"a", "b">>, <<"e">> >> }

\* item.path of a folder: 'disk:' and '/' + name for every name, character
\* by character.
RECURSIVE ItemPath(_)
ItemPath(names) ==
  IF names = <<>> THEN <<"disk:">>
  ELSE ItemPath(SubSeq(names, 1, Len(names) - 1))
         \o <<"/">> \o names[Len(names)]

\* str.startsWith(prefix)
StartsWith(str, prefix) ==
  Len(prefix) <= Len(str) /\ SubSeq(str, 1, Len(prefix)) = prefix

\* isAncestorSelected(path, selectedPaths)
isAncestorSelected(path, selectedPaths) ==
  \E sel \in selectedPaths :
    path # sel /\ StartsWith(path, sel \o <<"/">>)

\* The folders whose row is rendered: the root folders and the children of
\* every loaded node that is itself rendered.
Rendered ==
  { ItemPath(names) : names \in
      { f \in PickerFolders :
          \A n \in 1..(Len(f) - 1) : ItemPath(SubSeq(f, 1, n)) \in expanded } }

\* hasChildren of a loaded node: children.length > 0
HasChildFolders(path) ==
  \E f \in PickerFolders :
    Len(f) > 1 /\ ItemPath(SubSeq(f, 1, Len(f) - 1)) = path

\* toggleExpand(path) resolved, from the button of a rendered row (which
\* does nothing on a loaded node without children): a loaded node is
\* collapsed and loses its children, any other node gets its children
\* loaded.
toggleExpand ==
  /\ pc = "picker"
  /\ \E path \in Rendered :
       /\ path \in expanded => HasChildFolders(path)
       /\ expanded' =
            IF path \in expanded
              THEN {e \in expanded :
                      e # path /\ ~StartsWith(e, path \o <<"/">>)}
              ELSE expanded \cup {path}
  /\ UNCHANGED <<selected, scanPaths>>
  /\ UNCHANGED <<grouperVars, abortedAtCall, discoveryVars, trackerVars,
                 hammingVars, pageVars>>

\* A toggleSelect that keeps the selected descendants of the folder.
toggleSelectKeepsDescendants ==
  /\ pc = "picker"
  /\ \E path \in Rendered :
       /\ ~isAncestorSelected(path, selected)
       /\ selected' = IF path \in selected THEN selected \ {path}
                                           ELSE selected \cup {path}
  /\ UNCHANGED <<expanded, scanPaths>>
  /\ UNCHANGED <<grouperVars, abortedAtCall, discoveryVars, trackerVars,
                 hammingVars, pageVars>>

\* toggleSelect(path) from the checkbox of a rendered row, which is
\* disabled while an ancestor of the folder is selected.
toggleSelect ==
  /\ pc = "picker"
  /\ \E path \in Rendered :
       /\ ~isAncestorSelected(path, selected)
       /\ selected' =
            IF path \in selected THEN selected \ {path}
            ELSE (selected \cup {path})
                   \ {sel \in selected : StartsWith(sel, path \o <<"/">>)}
  /\ UNCHANGED <<expanded, scanPaths>>
  /\ UNCHANGED <<grouperVars, abortedAtCall, discoveryVars, trackerVars,
                 hammingVars, pageVars>>

\* handleScan: onScan(Array.from(selected)); setIsScanning(true) disables
\* the button.
handleScan ==
  /\ pc = "picker"
  /\ scanPaths = <<>>
  /\ scanPaths' = <<selected>>
  /\ UNCHANGED <<selected, expanded>>
  /\ UNCHANGED <<grouperVars, abortedAtCall, discoveryVars, trackerVars,
                 hammingVars, pageVars>>

\* The picker after loadRoot resolved.
InitPicker ==
  /\ GroupersIdle
  /\ DiscoveryIdle
  /\ aborted = FALSE
  /\ abortedAtCall = FALSE
  /\ pc = "picker"
  /\ outcome = "running"
  /\ trackSpeed = FALSE
  /\ bytesDownloaded = 0
  /\ elapsed = 0
  /\ estimates = <<>>
  /\ hashPair = <<>>
  /\ distance = <<>>
  /\ appState = "idle"
  /\ error = ""
  /\ pageResults = <<>>
  /\ selected = {}
  /\ expanded = {}
  /\ scanPaths = <<>>

NextPicker == toggleExpand \/ toggleSelect \/ handleScan

SpecPicker == InitPicker /\ [][NextPicker]_vars

\* Folder p lies above folder q in the tree of the Disk.
ProperAncestor(p, q) ==
  \E f, g \in PickerFolders :
    /\ ItemPath(f) = p
    /\ ItemPath(g) = q
    /\ Len(f) < Len(g)
    /\ SubSeq(g, 1, Len(f)) = f

NoOverlap(paths) == \A p, q \in paths : ~ProperAncestor(p, q)

\* C33: after any sequence of toggles of enabled checkboxes the selected
\* set holds no two folders of which one lies above the other, and neither
\* does the set of paths handed to onScan.
C33_SelectionNeverOverlaps ==
  /\ NoOverlap(selected)
  /\ scanPaths # <<>> => NoOverlap(scanPaths[1])

\* onScan was called with a/c and ab/e selected, and afterwards a was
\* selected in place of a/c, next to ab/e.
C33_Witness ==
  /\ scanPaths = << {ItemPath(<< <<"a">>, <<"c">> >>),
                     ItemPath(<< <<"a", "b">>, <<"e">> >>)} >>
  /\ selected = {ItemPath(<< <<"a">> >>),
                 ItemPath(<< <<"a", "b">>, <<"e">> >>)}


----------------------------------------------------------------------------
(* C34: the metadata fast path against the fallback                        *)

\* The Map the fallback loop of findExactDuplicates has built after the
\* first n entries of fs: each entry pushed under the SHA-256 of its bytes.
RECURSIVE FallbackMap(_, _)
FallbackMap(fs, n) ==
  IF n = 0 THEN <<>>
  ELSE LET hash == computeCryptoHash(fs[n].content)
       IN MapPush(FallbackMap(fs, n - 1), hash, HashedFile(n, hash))

\* What the fallback returns for fs when every fetch resolves.
FallbackResult(fs) == DuplicatesOnly(FallbackMap(fs, Len(fs)))

\* The sha256 metadata of every entry is the SHA-256 of its bytes.
Sha256IsContentHash ==
  \A x \in 1..Len(files) :
    files[x].sha256 = computeCryptoHash(files[x].content)

\* C34: when every entry's sha256 metadata is the SHA-256 of its bytes, what
\* findExactDuplicates returns through the metadata fast path is what its
\* fallback returns for the same entries: the same groups under the same
\* hashes, in the same group order and member order.  (A call that took
\* the fallback returns FallbackResult as well.)
C34_FastPathEqualsFallback ==
  (pc = "done" /\ (Sha256IsContentHash \/ (~EverySha256 /\ ~EveryMd5)))
    => groups = FallbackResult(files)

\* A fast-path call over five entries with sha256 returned two groups, the
\* first of them with members that are not neighbours in the input.
C34_Witness ==
  /\ pc = "done"
  /\ Sha256IsContentHash
  /\ Len(files) = 5
  /\ Len(groups) = 2
  /\ groups[1].files[1].entry = 1
  /\ groups[1].files[2].entry = 4
  /\ groups[2].files[1].entry = 2
  /\ groups[2].files[2].entry = 3


----------------------------------------------------------------------------
(* C35: the union-find array of findSimilarDuplicates                      *)

\* The index reached from x after following parent pointers of p for the
\* given number of steps, nothing written.
RECURSIVE Follow(_, _, _)
Follow(p, x, steps) ==
  IF steps = 0 THEN x ELSE Follow(p, p[x + 1], steps - 1)

\* Every pointer of p stays inside the array, and from every index the
\* pointers reach a self-parented index within Len(p) steps.
IsForest(p) ==
  /\ \A x \in 0..(Len(p) - 1) : p[x + 1] \in 0..(Len(p) - 1)
  /\ \A x \in 0..(Len(p) - 1) :
       LET r == Follow(p, x, Len(p)) IN p[r + 1] = r

RootIn(p, x) == Follow(p, x, Len(p))

\* The pairs (a, b) the pair loop has called union for so far: the pairs
\* before (i, j) in loop order whose distance is within the threshold.
UnionCalls ==
  {ab \in (0..(Len(parent) - 1)) \X (0..(Len(parent) - 1)) :
     /\ ab[1] < ab[2]
     /\ (ab[1] < i \/ (ab[1] = i /\ ab[2] < k))
     /\ hammingDistance(hashedFiles[ab[1] + 1].hash,
                        hashedFiles[ab[2] + 1].hash) <= threshold}

\* The indices a chain of union calls links to the indices in S.
RECURSIVE LinkedTo(_)
LinkedTo(S) ==
  LET more == S \cup {y \in 0..(Len(parent) - 1) :
                        \E x \in S : <<x, y>> \in UnionCalls
                                       \/ <<y, x>> \in UnionCalls}
  IN IF more = S THEN S ELSE LinkedTo(more)

\* C35: from StartCompare on, the parent array is a forest; find(x) ends
\* at the root the pointers lead to from x and the array it leaves has the
\* same root for every index; and two indices have the same root exactly
\* when a chain of the union calls made so far links them.
C35_ParentIsForestOfUnionCalls ==
  parent # <<>> =>
    /\ IsForest(parent)
    /\ \A x \in 0..(Len(parent) - 1) :
         LET f == find(parent, x) IN
         /\ f.root = RootIn(parent, x)
         /\ IsForest(f.parent)
         /\ \A y \in 0..(Len(parent) - 1) :
              RootIn(f.parent, y) = RootIn(parent, y)
    /\ \A x, y \in 0..(Len(parent) - 1) :
         (RootIn(parent, x) = RootIn(parent, y)) <=> (y \in LinkedTo({x}))

\* Inside the pair loop index 0 hangs two pointers below its root, and
\* find(0) would shorten its path.
C35_Witness ==
  /\ pc = "cmp"
  /\ parent = <<1, 2, 2>>
  /\ find(parent, 0).parent = <<2, 2, 2>>
  /\ LinkedTo({0}) = {0, 1, 2}


----------------------------------------------------------------------------
(* C36: the groups of findSimilarDuplicates under a larger threshold       *)

\* The parent array the pair loop leaves for the hashed entries hf at
\* threshold t, from the pair (a, b) on, when no pair throws.
RECURSIVE PairLoop(_, _, _, _, _)
PairLoop(p, hf, t, a, b) ==
  IF a >= Len(hf) THEN p
  ELSE IF b >= Len(hf) THEN PairLoop(p, hf, t, a + 1, a + 2)
  ELSE PairLoop(
         IF Similar(hammingDistance(hf[a + 1].hash, hf[b + 1].hash), t)
           THEN union(p, a, b) ELSE p,
         hf, t, a, b + 1)

\* What the clustering and collecting steps return for hf at threshold t.
ClusteredAt(hf, t) ==
  LET p == PairLoop(IdentityParent(Len(hf)), hf, t, 0, 1)
  IN SimilarGroups(GroupMap(p, hf, Len(hf)).map)

MembersOf(group) == {group.files[m].entry : m \in 1..Len(group.files)}

\* The largest distance two digests can have.
MaxDistance == 4 * MaxDigestLen

\* C36: the groups a call of findSimilarDuplicates returned at its
\* threshold are what the clustering gives for its hashed entries at that
\* threshold, and at every larger threshold each of them lies inside one
\* group of what the clustering gives for the same hashed entries.
C36_GroupsGrowWithThreshold ==
  ReturnedFromSimilar =>
    /\ groups = ClusteredAt(hashedFiles, threshold)
    /\ \A t2 \in threshold..MaxDistance :
         LET larger == ClusteredAt(hashedFiles, t2) IN
         \A g \in 1..Len(groups) :
           \E h \in 1..Len(larger) :
             MembersOf(groups[g]) \subseteq MembersOf(larger[h])

\* A call at threshold 0 returned one group of two entries; at threshold 2
\* the same hashed entries form one group of three.
C36_Witness ==
  /\ ReturnedFromSimilar
  /\ threshold = 0
  /\ Len(groups) = 1
  /\ Cardinality(MembersOf(groups[1])) = 2
  /\ Len(ClusteredAt(hashedFiles, 2)) = 1
  /\ Cardinality(MembersOf(ClusteredAt(hashedFiles, 2)[1])) = 3


----------------------------------------------------------------------------
(* C37: the counters of the progress events                                *)

\* C37: in every onProgress call of findExactDuplicates and
\* findSimilarDuplicates 0 <= processedFiles <= totalFiles, and of two
\* calls in a row with the same phase the later one does not report a
\* smaller processedFiles.
C37_ProgressCountersBoundedAndMonotone ==
  /\ \A x \in 1..Len(progress) :
       /\ 0 <= progress[x].processedFiles
       /\ progress[x].processedFiles <= progress[x].totalFiles
  /\ \A x \in 1..(Len(progress) - 1) :
       progress[x].phase = progress[x + 1].phase
         => progress[x].processedFiles <= progress[x + 1].processedFiles

\* A returned call reported progress in two phases, with the counter
\* moving inside each of them.
C37_Witness ==
  /\ pc = "done"
  /\ \E x, y \in 1..(Len(progress) - 1) :
       /\ progress[x].phase = "hashing"
       /\ progress[x + 1].phase = "hashing"
       /\ progress[x].processedFiles < progress[x + 1].processedFiles
       /\ progress[y].phase = "comparing"
       /\ progress[y + 1].phase = "comparing"
       /\ progress[y].processedFiles < progress[y + 1].processedFiles


----------------------------------------------------------------------------
(* C38: a rejected getFile is not remembered                               *)

\* The last getFileFromEntry call, on entry i, was rejected.
LastCallRejected == pc = "gf_idle" /\ outcome = SourceAccessFailure

\* C38: when entry.getFile rejects, getFileFromEntry rejects with that
\* error and changes neither the entry nor any other entry (no file is
\* stored); and the next getFileFromEntry call on the entry of a rejected
\* call invokes its getFile again.
C38_RejectionIsNotCached ==
  [][/\ (pc = "gf_fetch" /\ outcome' # "ok") =>
          /\ outcome' = SourceAccessFailure
          /\ cachedFile' = cachedFile
          /\ files' = files
          /\ i \notin cachedFile'
     /\ (LastCallRejected /\ k' = k + 1 /\ i' = i) =>
          /\ fetchLog' = Append(fetchLog, i)
          /\ pc' = "gf_fetch"]_vars

\* The first call on a remote entry was rejected, the second call on it
\* invoked getFile again and resolved: the entry holds its file after two
\* invocations.
C38_Witness ==
  /\ pc = "gf_idle"
  /\ outcome = "ok"
  /\ k = 2
  /\ fetchLog = <<1, 1>>
  /\ cachedFile = {1}


----------------------------------------------------------------------------
(* C39: the md5 groups in the clustering input                             *)

\* The entries of the list that carry the md5 of entry x.
CarriersOf(x) == {y \in 1..Len(files) : files[y].md5 = files[x].md5}

\* The positions of hashedFiles that hold an entry with the md5 of entry x.
HashedCarriersOf(x) ==
  {h \in 1..Len(hashedFiles) : hashedFiles[h].entry \in CarriersOf(x)}

\* C39: on the md5 path, once the hashing loop is over, for every md5 value
\* either every entry carrying it is in hashedFiles, all under one
\* perceptual hash, or none of them is.
C39_Md5GroupAllOrNone ==
  (hasMetadata /\ pc \in {"cmp", "cmp_yield", "done"}) =>
    \A x \in 1..Len(files) :
      \/ HashedCarriersOf(x) = {}
      \/ /\ {hashedFiles[h].entry : h \in HashedCarriersOf(x)} = CarriersOf(x)
         /\ \A g, h \in HashedCarriersOf(x) :
              hashedFiles[g].hash = hashedFiles[h].hash

====
